---------------------------- MODULE Spec2Model ----------------------------
(***************************************************************************)
(* KC-Presentation: the per-page extraction pipeline.                      *)
(*                                                                         *)
(*   SpecGeom   hasSignificantOverlap / deduplicateImages on a pair of     *)
(*              two-dimensional percentage boxes                           *)
(*   SpecDedup  deduplicateImages on lists of boxes lying on one row       *)
(*   SpecOcr    the /api/ocr route handler (POST) and its three engines    *)
(*   SpecLoad   loadFile / loadPdfFile / loadDocxFile of the store, one    *)
(*              load                                                       *)
(*                                                                         *)
(*   SpecDocs   the same, several loads in a row                           *)
(*   SpecMerge  buildTextLayerElements on one list of text runs and on a   *)
(*              reordering of it                                           *)
(*   SpecOcrLive  SpecOcr with the fairness the timeouts of the code give  *)
(*   SpecAbort  one load with the user's reset() at any moment of it       *)
(*   SpecEdit   the element operations of the store, reset() and one       *)
(*              translateAll call on a loaded presentation                 *)
(*                                                                         *)
(* Coordinates are whole percentages in SpecGeom, SpecDedup and SpecOcr    *)
(* and tenths of a percent in SpecLoad, SpecDocs and SpecMerge; the double *)
(* arithmetic of the source is exact on them.                              *)
(***************************************************************************)
EXTENDS Integers, Sequences, FiniteSets, TLC

VARIABLES
    \* SpecGeom: two boxes and what the code computes on them
    boxA, boxB, compared, overlapAB, overlapBA, keptA,
    \* SpecDedup: the arguments and the result of deduplicateImages
    pdfImages, ocrCroppedImages, dedupDone, deduplicated,
    \* SpecOcr: one request to the /api/ocr route
    apiKey,         \* process.env.GEMINI_API_KEY is set
    rpc,            \* where POST stands
    calls,          \* the network calls issued so far, in order
    paddleResult, vertexResult, geminiResult,
    paddleOutcome,  \* how the PaddleOCR attempt went
    vertexOutcome,  \* how the Vertex AI attempt went
    rawBody,        \* the response text handed to parseGeminiResponse by tryGeminiFree
    response,       \* what POST returned
    \* SpecLoad, SpecDocs: the store, the OCR client and one running load
    library,        \* the files the user may load
    loadsLeft,      \* how many more loads the user starts
    presentation, processingStatus,
    revoked,        \* ids of the presentations whose Blob URLs were revoked
    breaker,        \* the OCR client's circuit breaker: backends not to call
    lpc,            \* where the running load stands ("idle": none runs)
    file, loadId,   \* the file being loaded (or loaded last); loads begun
    loadOutcome,    \* how the last loadFile call ended
    numPages, i, slides, warnings, ocrErrorMsg,
    imageElements, textElements, ocrRegions,
    \* what happened, for the properties
    resets,         \* resetOcrCircuitBreaker calls of this load
    tripPage,       \* the page of this load on which the breaker opened, or 0
    slidesAtTrip,   \* the slides finished when it opened
    requests,       \* the pages of this load for which an OCR request was sent, in order
    pageTrace,      \* the stages the current page went through
    extractOutcome, ocrOutcome, cropOutcome, fallbackOutcome,
    nativeImages,   \* the images extractImagesFromPage returned for the page
    croppedImages,  \* the images cropImageRegions returned for the page
    \* SpecAbort: the user's reset() while a load runs
    aborts,         \* reset() calls so far
    abortedLoad,    \* the load that was running at the last of them, or 0
    abortedAt,      \* the page that load stood at
    \* SpecEdit: the user's edits and one translateAll call
    translationStatus,
    tpc,            \* where translateAll stands ("idle": not called)
    targetLang,
    allTexts,       \* the texts translateAll collected at its start
    batchAt,        \* the loop variable i of its batches
    translatedMap,  \* the translations received, by slide and element id
    translateOutcome, \* how the translateAll call ended
    abortsAtStart,  \* reset() calls before translateAll began
    edits,          \* store operations of the user so far
    lastOp,         \* the last of them, with its arguments
    \* SpecMerge: buildTextLayerElements on a page's text content
    layerContent,   \* content.items
    layerShuffled,  \* the same items in another order
    layerDone,
    layerElements, layerElementsShuffled,
    layerSteps      \* the merge steps of the sweep over content.items

geomVars  == <<boxA, boxB, compared, overlapAB, overlapBA, keptA>>
dedupVars == <<pdfImages, ocrCroppedImages, dedupDone, deduplicated>>
ocrVars   == <<apiKey, rpc, calls, paddleResult, vertexResult, geminiResult,
               paddleOutcome, vertexOutcome, rawBody, response>>
storeVars == <<presentation, processingStatus, revoked>>
loadVars  == <<lpc, file, loadId, loadOutcome, numPages, i, slides, warnings, ocrErrorMsg,
               imageElements, textElements, ocrRegions>>
histVars  == <<resets, tripPage, slidesAtTrip, requests, pageTrace,
               extractOutcome, ocrOutcome, cropOutcome, fallbackOutcome,
               nativeImages, croppedImages>>
layerVars == <<layerContent, layerShuffled, layerDone, layerElements, layerElementsShuffled,
               layerSteps>>
abortVars == <<aborts, abortedLoad, abortedAt>>
transVars == <<tpc, targetLang, allTexts, batchAt, translatedMap, translateOutcome,
               abortsAtStart>>
editVars  == <<translationStatus, transVars, edits, lastOp>>
pipeVars  == <<library, loadsLeft, storeVars, breaker, loadVars, histVars, layerVars,
               abortVars, editVars>>
vars == <<geomVars, dedupVars, ocrVars, pipeVars>>

(***************************************************************************)
(* Bounds of the model.                                                    *)
(***************************************************************************)
MaxPos == 2
MaxSize == 5
MaxPosY == 1
MaxSizeH == 2
MaxTrusted == 2
MaxElems == 2
MaxPages == 3
MaxSeriesPages == 2
MaxLoads == 2
MaxRuns == 3
MaxGap == 40
MaxAborts == 1
MaxEdits == 2

Max2(p, q) == IF p >= q THEN p ELSE q
Min2(p, q) == IF p <= q THEN p ELSE q

Box(px, py, w, h) == [x |-> px, y |-> py, width |-> w, height |-> h]

\* Boxes of the pair specification: positive width and height (the Box
\* invariant of the data model).
Boxes2D ==
    { Box(px, py, w, h) : px \in 0..MaxPos, py \in 0..MaxPosY,
                          w \in 1..MaxSize, h \in 1..MaxSizeH }

\* Boxes of the list specification: all on the row y = 0 with height 1.
RowBoxAt(k) == Box((k - 1) \div MaxSize, 0, ((k - 1) % MaxSize) + 1, 1)
RowBoxCount == (MaxPos + 1) * MaxSize
RowBoxes == { RowBoxAt(k) : k \in 1..RowBoxCount }
AllRowBoxes == [k \in 1..RowBoxCount |-> RowBoxAt(k)]
Reverse(s) == [k \in 1..Len(s) |-> s[Len(s) + 1 - k]]

SeqsUpTo(S, n) == UNION { [1..k -> S] : k \in 0..n }

(***************************************************************************)
(* presentation-store.ts: hasSignificantOverlap, deduplicateImages         *)
(***************************************************************************)
\* As hasSignificantOverlap, over the first box's area instead of the smaller.
hasSignificantOverlap_areaA(a, b) ==
    LET ax2 == a.x + a.width
        ay2 == a.y + a.height
        bx2 == b.x + b.width
        by2 == b.y + b.height
        ix1 == Max2(a.x, b.x)
        iy1 == Max2(a.y, b.y)
        ix2 == Min2(ax2, bx2)
        iy2 == Min2(ay2, by2)
    IN  IF ix2 <= ix1 \/ iy2 <= iy1 THEN FALSE
        ELSE LET intersection == (ix2 - ix1) * (iy2 - iy1)
                 areaA == a.width * a.height
             IN  areaA > 0 /\ 2 * intersection > areaA

\* As hasSignificantOverlap, over the union instead of the smaller area.
hasSignificantOverlap_union(a, b) ==
    LET ix1 == Max2(a.x, b.x)
        iy1 == Max2(a.y, b.y)
        ix2 == Min2(a.x + a.width, b.x + b.width)
        iy2 == Min2(a.y + a.height, b.y + b.height)
    IN  IF ix2 <= ix1 \/ iy2 <= iy1 THEN FALSE
        ELSE LET intersection == (ix2 - ix1) * (iy2 - iy1)
                 union == a.width * a.height + b.width * b.height - intersection
             IN  union > 0 /\ 2 * intersection > union

\* As hasSignificantOverlap, the right and bottom edges counted as covered.
hasSignificantOverlap_inclusive(a, b) ==
    LET ix1 == Max2(a.x, b.x)
        iy1 == Max2(a.y, b.y)
        ix2 == Min2(a.x + a.width, b.x + b.width)
        iy2 == Min2(a.y + a.height, b.y + b.height)
    IN  IF ix2 < ix1 \/ iy2 < iy1 THEN FALSE
        ELSE LET intersection == (ix2 - ix1 + 1) * (iy2 - iy1 + 1)
                 minArea == Min2(a.width * a.height, b.width * b.height)
             IN  minArea > 0 /\ 2 * intersection > minArea

\* As hasSignificantOverlap, with >= 0.5 for > 0.5.
hasSignificantOverlap_atLeastHalf(a, b) ==
    LET ix1 == Max2(a.x, b.x)
        iy1 == Max2(a.y, b.y)
        ix2 == Min2(a.x + a.width, b.x + b.width)
        iy2 == Min2(a.y + a.height, b.y + b.height)
    IN  IF ix2 <= ix1 \/ iy2 <= iy1 THEN FALSE
        ELSE LET intersection == (ix2 - ix1) * (iy2 - iy1)
                 minArea == Min2(a.width * a.height, b.width * b.height)
             IN  minArea > 0 /\ 2 * intersection >= minArea

\* intersection / minArea > 0.5 on whole numbers is 2 * intersection > minArea.
hasSignificantOverlap(a, b) ==
    LET ax2 == a.x + a.width
        ay2 == a.y + a.height
        bx2 == b.x + b.width
        by2 == b.y + b.height
        ix1 == Max2(a.x, b.x)
        iy1 == Max2(a.y, b.y)
        ix2 == Min2(ax2, bx2)
        iy2 == Min2(ay2, by2)
    IN  IF ix2 <= ix1 \/ iy2 <= iy1 THEN FALSE
        ELSE LET intersection == (ix2 - ix1) * (iy2 - iy1)
                 areaA == a.width * a.height
                 areaB == b.width * b.height
                 minArea == Min2(areaA, areaB)
             IN  minArea > 0 /\ 2 * intersection > minArea

deduplicateImages(pdfImgs, ocrImgs) ==
    IF Len(pdfImgs) = 0 THEN ocrImgs
    ELSE SelectSeq(ocrImgs,
            LAMBDA ocrImg :
                ~ \E k \in 1..Len(pdfImgs) :
                    hasSignificantOverlap(ocrImg, pdfImgs[k]))

(***************************************************************************)
(* route.ts: what the engines answer.                                      *)
(***************************************************************************)
\* Text as an OCR engine may send it: composed, decomposed, empty or missing.
RawTexts == {"cafe-nfc", "cafe-nfd", "undefined"}
\* String.prototype.normalize("NFC")
NFC(t) == IF t = "cafe-nfd" THEN "cafe-nfc" ELSE t
\* el.text || ""
OrEmpty(t) == IF t = "undefined" THEN "" ELSE t

RawEl(t) == [text |-> t, x |-> 5, y |-> 3, width |-> 90, height |-> 8, fontSize |-> 7]
RawEls == { RawEl(t) : t \in RawTexts }
RawElLists == SeqsUpTo(RawEls, MaxElems)
RawRegionLists == { <<>>, <<Box(55, 15, 40, 60)>> }

\* An optional field of the parsed JSON.
Absent == [present |-> FALSE, val |-> <<>>]
Present(v) == [present |-> TRUE, val |-> v]

\* What JSON.parse makes of the text: it throws ("malformed"), or gives an
\* object, an array, or a value that is neither ("other": a number, null);
\* an object may hold a truthy textElements that is no array ("badObject").
JsonValues ==
    { [kind |-> "object", textElements |-> Present(te), imageRegions |-> ir, items |-> <<>>] :
          te \in RawElLists, ir \in {Absent} \cup { Present(r) : r \in RawRegionLists } }
    \cup { [kind |-> "object", textElements |-> Absent, imageRegions |-> Absent, items |-> <<>>] }
    \cup { [kind |-> "array", textElements |-> Absent, imageRegions |-> Absent, items |-> te] :
          te \in RawElLists }
    \cup { [kind |-> k, textElements |-> Absent, imageRegions |-> Absent, items |-> <<>>] :
          k \in {"malformed", "other", "badObject"} }

\* The response text: JSON, bare or wrapped in a Markdown fence
\* ("json": ```json ... ```, "plain": ``` ... ```, "other": another language
\* tag, "trailing": a closing fence only).
Fences == {"none", "json", "plain", "other", "trailing"}
ResponseTexts == { [fence |-> f, json |-> j] : f \in Fences, j \in JsonValues }

PendingResult == [kind |-> "pending", textElements |-> <<>>, imageRegions |-> <<>>]
NullResult    == [kind |-> "null", textElements |-> <<>>, imageRegions |-> <<>>]
OcrResult(te, ir) == [kind |-> "result", textElements |-> te, imageRegions |-> ir]

NormalizeText(el) == [el EXCEPT !.text = NFC(OrEmpty(el.text))]
MapSeq(s, Op(_)) == [k \in 1..Len(s) |-> Op(s[k])]

\* As parseGeminiResponse, the bare-array shape not accepted.
parseGeminiResponse_objectOnly(responseText) ==
    LET parsed == IF responseText.fence \in {"none", "json", "plain"}
                  THEN responseText.json
                  ELSE [kind |-> "malformed", textElements |-> Absent,
                        imageRegions |-> Absent, items |-> <<>>]
    IN  IF parsed.kind = "object" /\ parsed.textElements.present
        THEN OcrResult(MapSeq(parsed.textElements.val, NormalizeText),
                       IF parsed.imageRegions.present THEN parsed.imageRegions.val ELSE <<>>)
        ELSE NullResult

\* route.ts parseGeminiResponse: strips a leading ```/```json fence with its
\* closing fence, parses, and accepts the object and the bare-array shape.
parseGeminiResponse(responseText) ==
    LET parsed == IF responseText.fence \in {"none", "json", "plain"}
                  THEN responseText.json
                  ELSE [kind |-> "malformed", textElements |-> Absent,
                        imageRegions |-> Absent, items |-> <<>>]
    IN  CASE parsed.kind = "object" /\ parsed.textElements.present ->
                OcrResult(MapSeq(parsed.textElements.val, NormalizeText),
                          IF parsed.imageRegions.present
                          THEN parsed.imageRegions.val ELSE <<>>)
          [] parsed.kind = "array" ->
                OcrResult(MapSeq(parsed.items, NormalizeText), <<>>)
          [] OTHER -> NullResult

\* As OrEmptyResult, without the default.
OrEmptyResult_noDefault(r) == r
\* parseGeminiResponse(responseText) || { textElements: [], imageRegions: [] }
OrEmptyResult(r) == IF r.kind = "null" THEN OcrResult(<<>>, <<>>) ELSE r

\* The error messages an engine call may throw with, by what POST's catch
\* looks for in them.
ErrorMessages == {"GEMINI_API_KEY missing", "API key not valid", "429 quota exceeded",
                  "fetch failed"}
MentionsApiKey(msg) == msg \in {"GEMINI_API_KEY missing", "API key not valid"}
MentionsRate(msg) == msg = "429 quota exceeded"

NoResponse == [status |-> 0, engine |-> "", textElements |-> <<>>,
               imageRegions |-> <<>>, error |-> ""]
JsonResponse(result, engineTag) ==
    [status |-> 200, engine |-> engineTag, textElements |-> result.textElements,
     imageRegions |-> result.imageRegions, error |-> ""]
\* POST's catch block
ErrorResponse(msg) ==
    [status |-> 500, engine |-> "", textElements |-> <<>>, imageRegions |-> <<>>,
     error |-> IF MentionsApiKey(msg) THEN "invalid Gemini API key"
               ELSE IF MentionsRate(msg) THEN "API rate limit exceeded"
               ELSE msg]

(***************************************************************************)
(* The page pipeline.  Page geometry is in tenths of a percent: 1000 is    *)
(* the full page width or height, 10 is one percent.                       *)
(***************************************************************************)
Abs(n) == IF n < 0 THEN -n ELSE n
\* Math.max(lo, Math.min(hi, v))
Clamp(lo, hi, v) == Max2(lo, Min2(hi, v))

ImageElement(url, b) ==
    [imageUrl |-> url, x |-> b.x, y |-> b.y, width |-> b.width, height |-> b.height]

\* As cropImageRegions, the region's box taken as it is.
cropImageRegions_unclamped(regions) ==
    [k \in 1..Len(regions) |->
        [imageUrl |-> "blob:crop", x |-> regions[k].x, y |-> regions[k].y,
         width |-> regions[k].width, height |-> regions[k].height]]
\* image-cropper.ts cropImageRegions: one image per region, in order, its
\* box clamped to [0,100] with width and height at least 1 (percent).
cropImageRegions(regions) ==
    [k \in 1..Len(regions) |->
        [imageUrl |-> "blob:crop",
         x |-> Clamp(0, 1000, regions[k].x),
         y |-> Clamp(0, 1000, regions[k].y),
         width |-> Clamp(10, 1000, regions[k].width),
         height |-> Clamp(10, 1000, regions[k].height)]]

\* presentation-store.ts buildTextLayerElements, step 1: a text item of the
\* page's text content to a raw item in page percentages; the vertical
\* origin is flipped.  fontSizePt = sqrt(a^2 + b^2) is taken on the inputs
\* where it is whole.
Hypot(a, b) == CHOOSE r \in 0..(Abs(a) + Abs(b)) : r * r = a * a + b * b
IsBlank(str) == str \in {"", " "}
toRawItem(item, viewport) ==
    LET fontSizePt == Hypot(item.a, item.b)
        fontSizePct == (fontSizePt * 1000) \div viewport.height
        w == IF item.width # 0 THEN item.width
             ELSE (fontSizePt * Len(item.str) * 6) \div 10
    IN  [text |-> NFC(item.str),
         x |-> (item.tx * 1000) \div viewport.width,
         y |-> ((viewport.height - item.ty) * 1000) \div viewport.height,
         width |-> (w * 1000) \div viewport.width,
         height |-> (fontSizePct * 13) \div 10,
         fontSize |-> fontSizePct]

\* rawItems.sort((a, b) => a.y - b.y || a.x - b.x): a stable sort.
SortsBefore(p, q) == p.y < q.y \/ (p.y = q.y /\ p.x < q.x)
RECURSIVE InsertSorted(_, _)
InsertSorted(sorted, item) ==
    IF sorted = <<>> THEN <<item>>
    ELSE IF SortsBefore(item, sorted[Len(sorted)])
         THEN Append(InsertSorted(SubSeq(sorted, 1, Len(sorted) - 1), item),
                     sorted[Len(sorted)])
         ELSE Append(sorted, item)
RECURSIVE SortItems(_)
SortItems(items) ==
    IF items = <<>> THEN <<>>
    ELSE InsertSorted(SortItems(SubSeq(items, 1, Len(items) - 1)), items[Len(items)])

\* As Mergeable, a gap of exactly 3 percent merged too.
Mergeable_gapAtMost3(cur, item) ==
    /\ 10 * Abs(item.y - cur.y) <= 7 * Max2(cur.height, item.height)
    /\ item.x - (cur.x + cur.width) <= 30
\* The merge condition of the sweep: |dy| <= 0.7 * max height and gap < 3.
Mergeable(cur, item) ==
    /\ 10 * Abs(item.y - cur.y) <= 7 * Max2(cur.height, item.height)
    /\ item.x - (cur.x + cur.width) < 30
MergeInto(cur, item) ==
    LET xGap == item.x - (cur.x + cur.width)
    IN  [cur EXCEPT
            !.text = cur.text \o (IF xGap > 5 THEN " " ELSE "") \o item.text,
            !.width = Max2(cur.width, item.x + item.width - cur.x),
            !.height = Max2(cur.height, item.height),
            !.fontSize = Max2(cur.fontSize, item.fontSize)]
RECURSIVE Sweep(_, _, _, _)
Sweep(rawItems, j, cur, merged) ==
    IF j > Len(rawItems) THEN Append(merged, cur)
    ELSE IF Mergeable(cur, rawItems[j])
         THEN Sweep(rawItems, j + 1, MergeInto(cur, rawItems[j]), merged)
         ELSE Sweep(rawItems, j + 1, rawItems[j], Append(merged, cur))

\* The merge steps of the sweep (lines 545-549), each with the open block
\* before it, the run merged and the open block after it.
RECURSIVE SweepSteps(_, _, _, _)
SweepSteps(rawItems, j, cur, steps) ==
    IF j > Len(rawItems) THEN steps
    ELSE IF Mergeable(cur, rawItems[j])
         THEN SweepSteps(rawItems, j + 1, MergeInto(cur, rawItems[j]),
                         Append(steps, [before |-> cur, run |-> rawItems[j],
                                        after |-> MergeInto(cur, rawItems[j])]))
         ELSE SweepSteps(rawItems, j + 1, rawItems[j], steps)

LayerElement(m) ==
    [text |-> m.text,
     x |-> Clamp(0, 1000, m.x), y |-> Clamp(0, 1000, m.y),
     width |-> Clamp(10, 1000, m.width), height |-> Clamp(10, 1000, m.height),
     fontSize |-> m.fontSize, fontColor |-> "#000000", fontWeight |-> "normal",
     textAlign |-> "left", isEdited |-> FALSE]

buildTextLayerElements(content, viewport) ==
    LET kept == SelectSeq(content, LAMBDA item : item.hasStr /\ ~ IsBlank(item.str))
        rawItems == SortItems([k \in 1..Len(kept) |-> toRawItem(kept[k], viewport)])
    IN  IF rawItems = <<>> THEN <<>>
        ELSE MapSeq(Sweep(rawItems, 2, rawItems[1], <<>>), LayerElement)

mergeSteps(content, viewport) ==
    LET kept == SelectSeq(content, LAMBDA item : item.hasStr /\ ~ IsBlank(item.str))
        rawItems == SortItems([k \in 1..Len(kept) |-> toRawItem(kept[k], viewport)])
    IN  IF rawItems = <<>> THEN <<>>
        ELSE SweepSteps(rawItems, 2, rawItems[1], <<>>)

(***************************************************************************)
(* The documents the user loads.                                           *)
(***************************************************************************)
\* page.getViewport({scale: 1.0}): a page of 1000 x 1000 points, so that a
\* point is a tenth of a percent.
Viewport == [width |-> 1000, height |-> 1000]

\* One item of page.getTextContent(): a string, the transform's a, b (font
\* size) and e, f (position), and the advance width.
TextItem(str, size, tx, ty, w) ==
    [hasStr |-> TRUE, str |-> str, a |-> size, b |-> 0, tx |-> tx, ty |-> ty, width |-> w]

OcrText(t) == [text |-> t, x |-> 50, y |-> 30, width |-> 900, height |-> 80, fontSize |-> 70]

\* A page with two embedded images and a text layer; the OCR engine sees a
\* region nested in the first image, one apart from both, one covering
\* exactly half of the second image, and one outside the page, and a text
\* element outside the page.
RichPage ==
    [native |-> << ImageElement("blob:native-1", Box(100, 100, 400, 400)),
                   ImageElement("blob:native-2", Box(600, 100, 300, 300)) >>,
     hasText |-> TRUE,
     content |-> << TextItem("lo", 30, 203, 900, 60), TextItem("Hel", 30, 100, 900, 100),
                    TextItem("World", 30, 400, 900, 150) >>,
     ocrText |-> << OcrText("Hello World"),
                    [text |-> "edge", x |-> -20, y |-> 1040, width |-> 0, height |-> 1500,
                     fontSize |-> 30] >>,
     ocrRegions |-> << Box(150, 150, 200, 200), Box(100, 600, 300, 300),
                       Box(500, 100, 200, 300), Box(-50, 950, 0, 2000) >>]
\* A page of text only; its text layer has an invisible run below the page.
TextPage ==
    [native |-> <<>>, hasText |-> TRUE,
     content |-> << TextItem("Title", 40, 100, 800, 300), TextItem("Footer", 0, 950, -20, 300) >>,
     ocrText |-> << OcrText("Title") >>, ocrRegions |-> <<>>]
\* A scanned page: no embedded image, no text layer; the OCR engine finds
\* no text and one picture.
ScanPage ==
    [native |-> <<>>, hasText |-> FALSE, content |-> <<>>,
     ocrText |-> <<>>, ocrRegions |-> << Box(200, 200, 500, 500) >>]

\* A page with one embedded image and no text; the OCR engine sees a figure
\* apart from the image and, as a region of its own, a chart inside the
\* figure.
FigurePage ==
    [native |-> << ImageElement("blob:native-1", Box(100, 100, 300, 300)) >>,
     hasText |-> FALSE, content |-> <<>>, ocrText |-> <<>>,
     ocrRegions |-> << Box(500, 500, 400, 400), Box(600, 600, 200, 200) >>]
FigureFile ==
    [name |-> "figure.pdf", ext |-> "pdf", outputFormat |-> "pptx", pages |-> << FigurePage >>]

\* An n-page PDF: scanned pages and text pages in turn, page `rich` (if any)
\* the rich one.
PdfPages(n, rich) ==
    [k \in 1..n |-> IF k = rich THEN RichPage
                    ELSE IF k % 2 = 1 THEN ScanPage ELSE TextPage]
PdfFile(n, rich) ==
    [name |-> "deck.pdf", ext |-> "pdf", outputFormat |-> "pptx", pages |-> PdfPages(n, rich)]
DocxFile == [name |-> "notes.docx", ext |-> "docx", outputFormat |-> "docx", pages |-> <<>>]
OtherFile == [name |-> "sheet.xlsx", ext |-> "other", outputFormat |-> "pptx", pages |-> <<>>]
NoFile == [name |-> "", ext |-> "", outputFormat |-> "", pages |-> <<>>]

\* The documents of SpecLoad (one load) and of SpecDocs (loads in a row).
LoadLibrary ==
    { PdfFile(n, rich) : n \in 1..MaxPages, rich \in 0..MaxPages }
    \cup {FigureFile, DocxFile, OtherFile}
SeriesLibrary ==
    { PdfFile(n, 0) : n \in 1..MaxSeriesPages } \cup {DocxFile, OtherFile}

(***************************************************************************)
(* ocr-client.ts (not in the repository snapshot; after the design         *)
(* document): extractTextWithOcr posts the page to /api/ocr unless the     *)
(* circuit breaker is open; a rate-limit answer opens the breaker and      *)
(* raises OcrRateLimitError; resetOcrCircuitBreaker empties it.            *)
(***************************************************************************)
PublicApi == "gemini-free"
\* As BreakerOpen, the breaker never consulted.
BreakerOpen_never(b) == FALSE
BreakerOpen(b) == PublicApi \in b
resetOcrCircuitBreaker == {}
\* As toTextElement, the box taken as the engine sent it.
toTextElement_verbatim(el) == el
\* The text element the client makes of an element of the answer: its box
\* clamped as every box from an untrusted source.
toTextElement(el) ==
    [el EXCEPT !.x = Clamp(0, 1000, el.x), !.y = Clamp(0, 1000, el.y),
               !.width = Clamp(10, 1000, el.width), !.height = Clamp(10, 1000, el.height)]
IsRateLimitAnswer(resp) == resp.status # 200 /\ resp.error = "API rate limit exceeded"
\* What /api/ocr may answer for a page.
ServerResponses(page) ==
    { JsonResponse(OcrResult(page.ocrText, page.ocrRegions), PublicApi) }
    \cup { ErrorResponse(msg) : msg \in {"429 quota exceeded", "fetch failed"} }

RateLimitWarning == "OCR failed: API limit exceeded"
OcrFailedWarning(msg) == "OCR failed: " \o msg
FirstPageWarnings == << "text/image extraction failed", "page images are exported" >>

NoPresentation ==
    [id |-> 0, fileName |-> "", slides |-> <<>>, currentSlideIndex |-> 0,
     activeLanguage |-> "", outputFormat |-> "", inputFileType |-> ""]
Status(stage, current, total, warns) ==
    [stage |-> stage, current |-> current, total |-> total, warnings |-> warns]

(***************************************************************************)
(* The variables of the specifications that are not running.              *)
(***************************************************************************)
InitOcrVars ==
    /\ apiKey = TRUE /\ rpc = "idle" /\ calls = <<>>
    /\ paddleResult = PendingResult /\ vertexResult = PendingResult
    /\ geminiResult = PendingResult
    /\ paddleOutcome = "" /\ vertexOutcome = "" /\ rawBody = [fence |-> "none", json |-> [kind |-> "other",
            textElements |-> Absent, imageRegions |-> Absent, items |-> <<>>]]
    /\ response = NoResponse

(***************************************************************************)
(* SpecGeom                                                                *)
(***************************************************************************)
InitGeomVars ==
    /\ boxA = Box(0, 0, 1, 1) /\ boxB = Box(0, 0, 1, 1)
    /\ compared = FALSE
    /\ overlapAB = FALSE /\ overlapBA = FALSE /\ keptA = <<>>

InitDedupVars ==
    /\ pdfImages = <<>> /\ ocrCroppedImages = <<>>
    /\ dedupDone = FALSE /\ deduplicated = <<>>

\* No load has begun: the store as created, the breaker as the module of the
\* OCR client is loaded.
InitLoadVars ==
    /\ lpc = "idle" /\ file = NoFile /\ loadId = 0 /\ loadOutcome = ""
    /\ numPages = 0 /\ i = 0 /\ slides = <<>> /\ warnings = <<>> /\ ocrErrorMsg = ""
    /\ imageElements = <<>> /\ textElements = <<>> /\ ocrRegions = <<>>
InitPageHist ==
    /\ pageTrace = <<>>
    /\ extractOutcome = "" /\ ocrOutcome = "" /\ cropOutcome = "" /\ fallbackOutcome = ""
    /\ nativeImages = <<>> /\ croppedImages = <<>>
InitHistVars ==
    /\ resets = 0 /\ tripPage = 0 /\ slidesAtTrip = <<>> /\ requests = <<>>
    /\ InitPageHist
InitStoreVars ==
    /\ presentation = NoPresentation
    /\ processingStatus = Status("idle", 0, 0, <<>>)
    /\ revoked = {}
InitLayerVars ==
    /\ layerContent = <<>> /\ layerShuffled = <<>> /\ layerDone = FALSE
    /\ layerElements = <<>> /\ layerElementsShuffled = <<>> /\ layerSteps = <<>>
InitAbortVars == aborts = 0 /\ abortedLoad = 0 /\ abortedAt = 0
TranslationStatus(stage, lang, current, total) ==
    [stage |-> stage, language |-> lang, current |-> current, total |-> total]
NoUpdates == [isEdited |-> FALSE]
NoOp == [op |-> "", slideId |-> "", elementId |-> "", updates |-> NoUpdates]
InitEditVars ==
    /\ translationStatus = TranslationStatus("idle", "", 0, 0)
    /\ tpc = "idle" /\ targetLang = "" /\ allTexts = <<>> /\ batchAt = 0
    /\ translatedMap = <<>>
    /\ translateOutcome = "" /\ abortsAtStart = 0
    /\ edits = 0 /\ lastOp = NoOp
InitIdlePipeline ==
    /\ library = {} /\ loadsLeft = 0
    /\ InitStoreVars /\ breaker = {} /\ InitLoadVars /\ InitHistVars /\ InitAbortVars
    /\ InitEditVars
InitPipeVars == InitIdlePipeline /\ InitLayerVars

InitGeom ==
    /\ boxA \in Boxes2D /\ boxB \in Boxes2D
    /\ compared = FALSE
    /\ overlapAB = FALSE /\ overlapBA = FALSE /\ keptA = <<>>
    /\ InitDedupVars /\ InitOcrVars /\ InitPipeVars

\* The code under test applied to the pair: the overlap test both ways round,
\* and boxA as the one OCR crop against boxB as the one embedded image.
Compare ==
    /\ ~compared
    /\ compared' = TRUE
    /\ overlapAB' = hasSignificantOverlap(boxA, boxB)
    /\ overlapBA' = hasSignificantOverlap(boxB, boxA)
    /\ keptA' = deduplicateImages(<<boxB>>, <<boxA>>)
    /\ UNCHANGED <<boxA, boxB, dedupVars, ocrVars, pipeVars>>

NextGeom == Compare
SpecGeom == InitGeom /\ [][NextGeom]_vars

(***************************************************************************)
(* SpecDedup                                                               *)
(***************************************************************************)
InitDedup ==
    /\ InitGeomVars /\ InitOcrVars /\ InitPipeVars
    /\ pdfImages \in SeqsUpTo(RowBoxes, MaxTrusted)
    /\ ocrCroppedImages \in {<<>>, AllRowBoxes, Reverse(AllRowBoxes)}
    /\ dedupDone = FALSE /\ deduplicated = <<>>

Deduplicate ==
    /\ ~dedupDone
    /\ dedupDone' = TRUE
    /\ deduplicated' = deduplicateImages(pdfImages, ocrCroppedImages)
    /\ UNCHANGED <<pdfImages, ocrCroppedImages, geomVars, ocrVars, pipeVars>>

NextDedup == Deduplicate
SpecDedup == InitDedup /\ [][NextDedup]_vars

(***************************************************************************)
(* SpecOcr: route.ts, one POST request.                                    *)
(***************************************************************************)
InitOcr ==
    /\ InitGeomVars /\ InitDedupVars /\ InitPipeVars
    /\ apiKey \in BOOLEAN
    /\ rpc = "start" /\ calls = <<>>
    /\ paddleResult = PendingResult /\ vertexResult = PendingResult
    /\ geminiResult = PendingResult
    /\ paddleOutcome = "" /\ vertexOutcome = "" /\ rawBody = [fence |-> "none", json |-> [kind |-> "other",
            textElements |-> Absent, imageRegions |-> Absent, items |-> <<>>]]
    /\ response = NoResponse

\* const { image } = await request.json()
ReadRequest ==
    /\ rpc = "start"
    /\ \/ /\ rpc' = "paddleHealth"
          /\ UNCHANGED response
       \/ /\ rpc' = "done"
          /\ response' = ErrorResponse("Unexpected end of JSON input")
    /\ UNCHANGED <<apiKey, calls, paddleResult, vertexResult, geminiResult,
                   paddleOutcome, vertexOutcome, rawBody, geomVars, dedupVars, pipeVars>>

\* tryPaddleOcr, the liveness probe: not ok, or a throw (refused, 2 s
\* timeout), makes tryPaddleOcr return null.
PaddleHealth ==
    /\ rpc = "paddleHealth"
    /\ calls' = Append(calls, "paddle/health")
    /\ \E outcome \in {"ok", "probeNotOk", "probeThrew"} :
          IF outcome = "ok"
          THEN /\ rpc' = "paddleOcr"
               /\ UNCHANGED <<paddleResult, paddleOutcome>>
          ELSE /\ rpc' = "vertex"
               /\ paddleResult' = NullResult
               /\ paddleOutcome' = outcome
    /\ UNCHANGED <<apiKey, vertexResult, geminiResult, vertexOutcome, rawBody,
                   response, geomVars, dedupVars, pipeVars>>

\* tryPaddleOcr, the OCR call, and POST's return on a result.  The fetch and
\* response.json() stand outside any try of tryPaddleOcr: a throw reaches
\* POST's catch.
PaddleOcr_noReturn ==
    /\ rpc = "paddleOcr"
    /\ calls' = Append(calls, "paddle/ocr")
    /\ \/ \E msg \in {"fetch failed", "The operation was aborted due to timeout"} :
            /\ rpc' = "done"
            /\ response' = ErrorResponse(msg)
            /\ paddleOutcome' = "ocrThrew"
            /\ UNCHANGED paddleResult
       \/ /\ rpc' = "vertex"
          /\ paddleResult' = NullResult
          /\ paddleOutcome' = "ocrNotOk"
          /\ UNCHANGED response
       \/ \E te \in {Absent} \cup { Present(l) : l \in RawElLists } :
            /\ paddleResult' = OcrResult(IF te.present THEN te.val ELSE <<>>, <<>>)
            /\ paddleOutcome' = "result"
            /\ rpc' = "vertex"
            /\ UNCHANGED response
    /\ UNCHANGED <<apiKey, vertexResult, geminiResult, vertexOutcome, rawBody,
                   geomVars, dedupVars, pipeVars>>

PaddleOcr ==
    /\ rpc = "paddleOcr"
    /\ calls' = Append(calls, "paddle/ocr")
    /\ \/ \E msg \in {"fetch failed", "The operation was aborted due to timeout"} :
            /\ rpc' = "done"
            /\ response' = ErrorResponse(msg)
            /\ paddleOutcome' = "ocrThrew"
            /\ UNCHANGED paddleResult
       \/ /\ rpc' = "vertex"
          /\ paddleResult' = NullResult
          /\ paddleOutcome' = "ocrNotOk"
          /\ UNCHANGED response
       \/ \E te \in {Absent} \cup { Present(l) : l \in RawElLists } :
            /\ paddleResult' = OcrResult(IF te.present THEN te.val ELSE <<>>, <<>>)
            /\ paddleOutcome' = "result"
            /\ rpc' = "done"
            /\ response' = JsonResponse(paddleResult', "paddleocr")
    /\ UNCHANGED <<apiKey, vertexResult, geminiResult, vertexOutcome, rawBody,
                   geomVars, dedupVars, pipeVars>>

\* tryVertexAi and POST's return on a result: every throw inside (no
\* credentials, quota, network) and an empty response text give null.
Vertex ==
    /\ rpc = "vertex"
    /\ calls' = Append(calls, "vertex")
    /\ \/ \E outcome \in {"noCredentials", "failed", "empty"} :
            /\ vertexOutcome' = outcome
            /\ vertexResult' = NullResult
            /\ rpc' = "gemini"
            /\ UNCHANGED response
       \/ \E responseText \in ResponseTexts :
            LET r == parseGeminiResponse(responseText) IN
            /\ vertexResult' = r
            /\ IF r.kind = "null"
               THEN /\ vertexOutcome' = "unparseable"
                    /\ rpc' = "gemini"
                    /\ UNCHANGED response
               ELSE /\ vertexOutcome' = "result"
                    /\ rpc' = "done"
                    /\ response' = JsonResponse(r, "vertexai")
    /\ UNCHANGED <<apiKey, paddleResult, geminiResult, paddleOutcome, rawBody,
                   geomVars, dedupVars, pipeVars>>

\* As Gemini, the key not looked at before the call.
Gemini_noKeyCheck ==
    /\ rpc = "gemini"
    /\ rpc' = "done"
    /\ calls' = Append(calls, "gemini")
    /\ \/ \E msg \in {"API key not valid", "429 quota exceeded", "fetch failed"} :
            /\ response' = ErrorResponse(msg)
            /\ UNCHANGED <<geminiResult, rawBody>>
       \/ \E responseText \in ResponseTexts :
            /\ rawBody' = responseText
            /\ geminiResult' = OrEmptyResult(parseGeminiResponse(responseText))
            /\ response' = JsonResponse(geminiResult', "gemini-free")
    /\ UNCHANGED <<apiKey, paddleResult, vertexResult, paddleOutcome, vertexOutcome,
                   geomVars, dedupVars, pipeVars>>

\* tryGeminiFree and POST's return: without a key it throws before any
\* call; a throw of generateContent reaches POST's catch.
Gemini ==
    /\ rpc = "gemini"
    /\ rpc' = "done"
    /\ IF ~ apiKey
       THEN /\ response' = ErrorResponse("GEMINI_API_KEY missing")
            /\ UNCHANGED <<calls, geminiResult, rawBody>>
       ELSE /\ calls' = Append(calls, "gemini")
            /\ \/ \E msg \in {"API key not valid", "429 quota exceeded", "fetch failed"} :
                    /\ response' = ErrorResponse(msg)
                    /\ UNCHANGED <<geminiResult, rawBody>>
               \/ \E responseText \in ResponseTexts :
                    /\ rawBody' = responseText
                    /\ geminiResult' = OrEmptyResult(parseGeminiResponse(responseText))
                    /\ response' = JsonResponse(geminiResult', "gemini-free")
    /\ UNCHANGED <<apiKey, paddleResult, vertexResult, paddleOutcome, vertexOutcome,
                   geomVars, dedupVars, pipeVars>>

NextOcr == ReadRequest \/ PaddleHealth \/ PaddleOcr \/ Vertex \/ Gemini
SpecOcr == InitOcr /\ [][NextOcr]_vars

\* The request when a backend may never answer.  An await whose fetch carries
\* AbortSignal.timeout (the probe, 2 s; the local OCR call, 30 s) ends, by
\* the answer or by the timeout's throw; tryGeminiFree without a key throws
\* at once.  The generateContent calls of tryVertexAi and tryGeminiFree are
\* given no timeout and no signal: nothing makes them end.
GeminiWithoutKey == Gemini /\ ~ apiKey
SpecOcrLive ==
    /\ InitOcr /\ [][NextOcr]_vars
    /\ WF_vars(ReadRequest) /\ WF_vars(PaddleHealth) /\ WF_vars(PaddleOcr)
    /\ WF_vars(GeminiWithoutKey)

(***************************************************************************)
(* SpecLoad, SpecDocs: presentation-store.ts loadFile, loadPdfFile,        *)
(* loadDocxFile.  lpc is the await the running load stands at.             *)
(***************************************************************************)
otherVars == <<geomVars, dedupVars, ocrVars, layerVars, abortVars, editVars>>
pageHist == <<pageTrace, extractOutcome, ocrOutcome, cropOutcome, fallbackOutcome,
              nativeImages, croppedImages>>
docHist == <<resets, tripPage, slidesAtTrip, requests>>
pageVars == <<imageElements, textElements, ocrRegions>>

CurrentPage == file.pages[i]
\* As Slide, the page index counted from one.
Slide_oneBased(pageIndex, texts, images) ==
    [pageIndex |-> pageIndex + 1, textElements |-> texts, imageElements |-> images]
\* lines 472-482: the slide of a page
Slide(pageIndex, texts, images) ==
    [pageIndex |-> pageIndex, textElements |-> texts, imageElements |-> images]
Presentation(pid, f, slds, type) ==
    [id |-> pid, fileName |-> f.name, slides |-> slds, currentSlideIndex |-> 0,
     activeLanguage |-> "original", outputFormat |-> f.outputFormat, inputFileType |-> type]
\* What loadDocx hands back for a document of n pages (docx-loader.ts is not
\* in the repository snapshot; only the number of slides matters here).
DocxSlides(n) == [k \in 1..n |-> Slide(k - 1, <<>>, <<>>)]

\* revokePresentationBlobUrls(get().presentation)
revokePresentationBlobUrls(p) == IF p.id # 0 THEN revoked \cup {p.id} ELSE revoked

\* loadFile: revokes the Blob URLs of the presentation shown, and enters
\* loadPdfFile or loadDocxFile by the file's extension, or throws.
LoadFile ==
    /\ lpc = "idle" /\ loadsLeft > 0
    /\ loadsLeft' = loadsLeft - 1
    /\ revoked' = revokePresentationBlobUrls(presentation)
    /\ \E f \in library :
         IF f.ext \in {"pdf", "docx"}
         THEN /\ file' = f /\ loadId' = loadId + 1 /\ loadOutcome' = "running"
              /\ processingStatus' =
                     Status(IF f.ext = "pdf" THEN "loading-pdf" ELSE "loading-docx", 0, 0, <<>>)
              /\ lpc' = IF f.ext = "pdf" THEN "import" ELSE "docx"
              /\ numPages' = 0 /\ i' = 0 /\ slides' = <<>> /\ warnings' = <<>>
              /\ ocrErrorMsg' = ""
              /\ imageElements' = <<>> /\ textElements' = <<>> /\ ocrRegions' = <<>>
              /\ resets' = 0 /\ tripPage' = 0 /\ slidesAtTrip' = <<>> /\ requests' = <<>>
              /\ pageTrace' = <<>> /\ extractOutcome' = "" /\ ocrOutcome' = ""
              /\ cropOutcome' = "" /\ fallbackOutcome' = ""
              /\ nativeImages' = <<>> /\ croppedImages' = <<>>
         ELSE /\ loadOutcome' = "threw: unsupported file type"
              /\ UNCHANGED <<processingStatus, lpc, file, loadId, numPages, i, slides,
                             warnings, ocrErrorMsg, pageVars, docHist, pageHist>>
    /\ UNCHANGED <<library, presentation, breaker, otherVars>>

\* loadPdfFile, lines 357-364: the imports and resetOcrCircuitBreaker().
PdfImportAndReset ==
    /\ lpc = "import"
    /\ breaker' = resetOcrCircuitBreaker
    /\ resets' = resets + 1
    /\ lpc' = "open"
    /\ UNCHANGED <<library, loadsLeft, storeVars, file, loadId, loadOutcome, numPages, i,
                   slides, warnings, ocrErrorMsg, pageVars, tripPage, slidesAtTrip,
                   requests, pageHist, otherVars>>

\* The catch block of loadPdfFile and of loadDocxFile.
AbortLoad(why) ==
    /\ processingStatus' = Status("idle", 0, 0, <<>>)
    /\ loadOutcome' = why
    /\ lpc' = "idle"

\* lines 366-379: loadPdf opens the document, or throws.
PdfOpen ==
    /\ lpc = "open"
    /\ \/ /\ numPages' = Len(file.pages)
          /\ processingStatus' = Status("rendering-pages", 0, Len(file.pages), <<>>)
          /\ slides' = <<>> /\ ocrErrorMsg' = "" /\ i' = 1
          /\ lpc' = "getPage"
          /\ UNCHANGED loadOutcome
       \/ /\ AbortLoad("threw: loadPdf")
          /\ UNCHANGED <<numPages, slides, ocrErrorMsg, i>>
    /\ UNCHANGED <<library, loadsLeft, presentation, revoked, breaker, file, loadId,
                   warnings, pageVars, docHist, pageHist, otherVars>>

\* lines 382-390: pdfDoc.getPage(i), outside the page's try blocks.
GetPage ==
    /\ lpc = "getPage"
    /\ \/ /\ processingStatus' = Status("rendering-pages", i, numPages, <<>>)
          /\ pageTrace' = << "rendering-pages" >>
          /\ extractOutcome' = "" /\ ocrOutcome' = "" /\ cropOutcome' = ""
          /\ fallbackOutcome' = "" /\ nativeImages' = <<>> /\ croppedImages' = <<>>
          /\ lpc' = "render"
          /\ UNCHANGED loadOutcome
       \/ /\ AbortLoad("threw: getPage")
          /\ UNCHANGED pageHist
    /\ UNCHANGED <<library, loadsLeft, presentation, revoked, breaker, file, loadId,
                   numPages, i, slides, warnings, ocrErrorMsg, pageVars, docHist, otherVars>>

\* lines 392-401: renderPageToImage(page), outside the page's try blocks.
RenderPage ==
    /\ lpc = "render"
    /\ \/ /\ processingStatus' = Status("extracting-images", i, numPages, <<>>)
          /\ pageTrace' = pageTrace \o << "renderPageToImage", "extracting-images" >>
          /\ lpc' = "extract"
          /\ UNCHANGED loadOutcome
       \/ /\ AbortLoad("threw: renderPageToImage")
          /\ UNCHANGED pageTrace
    /\ UNCHANGED <<library, loadsLeft, presentation, revoked, breaker, file, loadId,
                   numPages, i, slides, warnings, ocrErrorMsg, pageVars, docHist,
                   extractOutcome, ocrOutcome, cropOutcome, fallbackOutcome,
                   nativeImages, croppedImages, otherVars>>

\* As ExtractImages, a throw of the extraction not caught.
ExtractImages_throwAborts ==
    /\ lpc = "extract"
    /\ \/ /\ imageElements' = CurrentPage.native
          /\ nativeImages' = CurrentPage.native
          /\ extractOutcome' = "ok"
          /\ processingStatus' = Status("ocr-processing", i, numPages, <<>>)
          /\ pageTrace' = pageTrace \o << "extractImagesFromPage", "ocr-processing" >>
          /\ textElements' = <<>>
          /\ lpc' = "ocr"
          /\ UNCHANGED loadOutcome
       \/ /\ extractOutcome' = "threw"
          /\ AbortLoad("threw: extractImagesFromPage")
          /\ pageTrace' = Append(pageTrace, "extractImagesFromPage")
          /\ UNCHANGED <<imageElements, nativeImages, textElements>>
    /\ UNCHANGED <<library, loadsLeft, presentation, revoked, breaker, file, loadId,
                   numPages, i, slides, warnings, ocrErrorMsg, ocrRegions,
                   docHist, ocrOutcome, cropOutcome, fallbackOutcome, croppedImages,
                   otherVars>>

\* As ExtractImages, the stage "ocr-processing" set before the extraction.
ExtractImages_stageFirst ==
    /\ lpc = "extract"
    /\ \E threw \in BOOLEAN :
         /\ imageElements' = IF threw THEN <<>> ELSE CurrentPage.native
         /\ nativeImages' = IF threw THEN <<>> ELSE CurrentPage.native
         /\ extractOutcome' = IF threw THEN "threw" ELSE "ok"
    /\ processingStatus' = Status("ocr-processing", i, numPages, <<>>)
    /\ pageTrace' = pageTrace \o << "ocr-processing", "extractImagesFromPage" >>
    /\ textElements' = <<>>
    /\ lpc' = "ocr"
    /\ UNCHANGED <<library, loadsLeft, presentation, revoked, breaker, file, loadId,
                   loadOutcome, numPages, i, slides, warnings, ocrErrorMsg, ocrRegions,
                   docHist, ocrOutcome, cropOutcome, fallbackOutcome, croppedImages,
                   otherVars>>

\* lines 403-420: extractImagesFromPage(page); a throw leaves no image.
ExtractImages ==
    /\ lpc = "extract"
    /\ \E threw \in BOOLEAN :
         /\ imageElements' = IF threw THEN <<>> ELSE CurrentPage.native
         /\ nativeImages' = IF threw THEN <<>> ELSE CurrentPage.native
         /\ extractOutcome' = IF threw THEN "threw" ELSE "ok"
    /\ processingStatus' = Status("ocr-processing", i, numPages, <<>>)
    /\ pageTrace' = pageTrace \o << "extractImagesFromPage", "ocr-processing" >>
    /\ textElements' = <<>>
    /\ lpc' = "ocr"
    /\ UNCHANGED <<library, loadsLeft, presentation, revoked, breaker, file, loadId,
                   loadOutcome, numPages, i, slides, warnings, ocrErrorMsg, ocrRegions,
                   docHist, ocrOutcome, cropOutcome, fallbackOutcome, croppedImages,
                   otherVars>>

\* As OcrCatch, no warning pushed.
OcrCatch_noWarning(errMsg, isCircuitBreaker) ==
    /\ ocrErrorMsg' = IF ocrErrorMsg = "" THEN errMsg ELSE ocrErrorMsg
    /\ UNCHANGED warnings
\* As OcrCatch, every OCR error of the document recorded.
OcrCatch_everyError(errMsg, isCircuitBreaker) ==
    /\ ocrErrorMsg' = errMsg
    /\ warnings' = Append(warnings, IF isCircuitBreaker THEN RateLimitWarning
                                    ELSE OcrFailedWarning(errMsg))
\* lines 439-450: the catch block of the page's OCR try; only the first OCR
\* error of the document is recorded.
OcrCatch(errMsg, isCircuitBreaker) ==
    IF ocrErrorMsg = ""
    THEN /\ ocrErrorMsg' = errMsg
         /\ warnings' = Append(warnings, IF isCircuitBreaker THEN RateLimitWarning
                                         ELSE OcrFailedWarning(errMsg))
    ELSE UNCHANGED <<ocrErrorMsg, warnings>>

\* line 423: extractTextWithOcr(rendered.fullImageBase64).  With the breaker
\* open the client raises OcrRateLimitError without a request; otherwise it
\* posts the page and takes the answer of /api/ocr.
OcrCall ==
    /\ lpc = "ocr"
    /\ pageTrace' = Append(pageTrace, "extractTextWithOcr")
    /\ IF BreakerOpen(breaker)
       THEN /\ ocrOutcome' = "skipped"
            /\ OcrCatch("rate limited", TRUE)
            /\ lpc' = "fallback"
            /\ UNCHANGED <<breaker, requests, tripPage, slidesAtTrip, textElements, ocrRegions>>
       ELSE \E resp \in ServerResponses(CurrentPage) :
            /\ requests' = Append(requests, i)
            /\ IF resp.status = 200
               THEN /\ ocrOutcome' = "ok"
                    /\ textElements' = MapSeq(resp.textElements, toTextElement)
                    /\ ocrRegions' = resp.imageRegions
                    /\ lpc' = IF Len(resp.imageRegions) > 0 THEN "crop" ELSE "pageEnd"
                    /\ UNCHANGED <<breaker, tripPage, slidesAtTrip, ocrErrorMsg, warnings>>
               ELSE IF IsRateLimitAnswer(resp)
               THEN /\ ocrOutcome' = "rateLimited"
                    /\ breaker' = breaker \cup {PublicApi}
                    /\ tripPage' = i /\ slidesAtTrip' = slides
                    /\ OcrCatch("rate limited", TRUE)
                    /\ lpc' = "fallback"
                    /\ UNCHANGED <<textElements, ocrRegions>>
               ELSE /\ ocrOutcome' = "failed"
                    /\ OcrCatch(resp.error, FALSE)
                    /\ lpc' = "fallback"
                    /\ UNCHANGED <<breaker, tripPage, slidesAtTrip, textElements, ocrRegions>>
    /\ UNCHANGED <<library, loadsLeft, storeVars, file, loadId, loadOutcome, numPages, i,
                   slides, imageElements, resets, extractOutcome, cropOutcome,
                   fallbackOutcome, nativeImages, croppedImages, otherVars>>

\* As withUniqueCroppedImages, the crops put before the embedded images.
withUniqueCroppedImages_cropsFirst(images, cropped) ==
    deduplicateImages(images, cropped) \o images
\* lines 434-435: imageElements = [...imageElements, ...uniqueCroppedImages]
withUniqueCroppedImages(images, cropped) ==
    images \o deduplicateImages(images, cropped)

\* lines 428-436: cropImageRegions, deduplicateImages against the page's
\* embedded images, and the append; a throw of the cropper leaves the images
\* as they were.
Crop ==
    /\ lpc = "crop"
    /\ pageTrace' = Append(pageTrace, "cropImageRegions")
    /\ \/ /\ cropOutcome' = "ok"
          /\ croppedImages' = cropImageRegions(ocrRegions)
          /\ imageElements' = withUniqueCroppedImages(imageElements, cropImageRegions(ocrRegions))
       \/ /\ cropOutcome' = "threw"
          /\ UNCHANGED <<croppedImages, imageElements>>
    /\ lpc' = "pageEnd"
    /\ UNCHANGED <<library, loadsLeft, storeVars, breaker, file, loadId, loadOutcome,
                   numPages, i, slides, warnings, ocrErrorMsg, textElements, ocrRegions,
                   docHist, extractOutcome, ocrOutcome, fallbackOutcome, nativeImages,
                   otherVars>>

\* As Fallback, hasText not looked at.
Fallback_ignoresHasText ==
    /\ lpc = "fallback"
    /\ pageTrace' = Append(pageTrace, "tryExtractText")
    /\ \/ /\ fallbackOutcome' = "merged"
          /\ textElements' = buildTextLayerElements(CurrentPage.content, Viewport)
       \/ /\ ~ CurrentPage.hasText
          /\ fallbackOutcome' = "noText"
          /\ UNCHANGED textElements
       \/ /\ fallbackOutcome' = "threw"
          /\ UNCHANGED textElements
    /\ lpc' = "pageEnd"
    /\ UNCHANGED <<library, loadsLeft, storeVars, breaker, file, loadId, loadOutcome,
                   numPages, i, slides, warnings, ocrErrorMsg, imageElements, ocrRegions,
                   docHist, extractOutcome, ocrOutcome, cropOutcome, nativeImages,
                   croppedImages, otherVars>>

\* lines 453-463: the text layer, when OCR failed.
Fallback ==
    /\ lpc = "fallback"
    /\ pageTrace' = Append(pageTrace, "tryExtractText")
    /\ \/ /\ CurrentPage.hasText
          /\ fallbackOutcome' = "merged"
          /\ textElements' = buildTextLayerElements(CurrentPage.content, Viewport)
       \/ /\ ~ CurrentPage.hasText
          /\ fallbackOutcome' = "noText"
          /\ UNCHANGED textElements
       \/ /\ fallbackOutcome' = "threw"
          /\ UNCHANGED textElements
    /\ lpc' = "pageEnd"
    /\ UNCHANGED <<library, loadsLeft, storeVars, breaker, file, loadId, loadOutcome,
                   numPages, i, slides, warnings, ocrErrorMsg, imageElements, ocrRegions,
                   docHist, extractOutcome, ocrOutcome, cropOutcome, nativeImages,
                   croppedImages, otherVars>>

\* As PageEnd, the warning of an empty page pushed for every page.
PageEnd_everyPage ==
    /\ lpc = "pageEnd"
    /\ pageTrace' = Append(pageTrace, "done")
    /\ warnings' = IF Len(textElements) = 0 /\ Len(imageElements) = 0
                   THEN warnings \o FirstPageWarnings ELSE warnings
    /\ slides' = Append(slides, Slide(i - 1, textElements, imageElements))
    /\ i' = i + 1
    /\ lpc' = IF i + 1 <= numPages THEN "getPage" ELSE "assemble"
    /\ UNCHANGED <<library, loadsLeft, storeVars, breaker, file, loadId, loadOutcome,
                   numPages, ocrErrorMsg, pageVars, docHist, extractOutcome, ocrOutcome,
                   cropOutcome, fallbackOutcome, nativeImages, croppedImages, otherVars>>

\* lines 466-482 and the loop head: the first page's warning, the slide.
PageEnd ==
    /\ lpc = "pageEnd"
    /\ pageTrace' = Append(pageTrace, "done")
    /\ warnings' = IF i = 1 /\ Len(textElements) = 0 /\ Len(imageElements) = 0
                   THEN warnings \o FirstPageWarnings ELSE warnings
    /\ slides' = Append(slides, Slide(i - 1, textElements, imageElements))
    /\ i' = i + 1
    /\ lpc' = IF i + 1 <= numPages THEN "getPage" ELSE "assemble"
    /\ UNCHANGED <<library, loadsLeft, storeVars, breaker, file, loadId, loadOutcome,
                   numPages, ocrErrorMsg, pageVars, docHist, extractOutcome, ocrOutcome,
                   cropOutcome, fallbackOutcome, nativeImages, croppedImages, otherVars>>

\* lines 485-499: the presentation and the stage "complete".
Assemble ==
    /\ lpc = "assemble"
    /\ presentation' = Presentation(loadId, file, slides, "pdf")
    /\ processingStatus' = Status("complete", 0, 0, warnings)
    /\ loadOutcome' = "ok"
    /\ lpc' = "idle"
    /\ UNCHANGED <<library, loadsLeft, revoked, breaker, file, loadId, numPages, i, slides,
                   warnings, ocrErrorMsg, pageVars, docHist, pageHist, otherVars>>

\* loadDocxFile, lines 586-594: the loader reports its progress.
DocxProgress ==
    /\ lpc = "docx" /\ i < MaxSeriesPages
    /\ i' = i + 1
    /\ processingStatus' = Status("rendering-pages", i + 1, MaxSeriesPages, <<>>)
    /\ UNCHANGED <<library, loadsLeft, presentation, revoked, breaker, lpc, file, loadId,
                   loadOutcome, numPages, slides, warnings, ocrErrorMsg, pageVars,
                   docHist, pageHist, otherVars>>

\* lines 596-607: loadDocx returned.
DocxDone ==
    /\ lpc = "docx"
    /\ presentation' = Presentation(loadId, file, DocxSlides(i), "docx")
    /\ processingStatus' = Status("complete", 0, 0, <<>>)
    /\ loadOutcome' = "ok"
    /\ lpc' = "idle"
    /\ UNCHANGED <<library, loadsLeft, revoked, breaker, file, loadId, numPages, i, slides,
                   warnings, ocrErrorMsg, pageVars, docHist, pageHist, otherVars>>

\* lines 608-612: loadDocx threw.
DocxFail ==
    /\ lpc = "docx"
    /\ AbortLoad("threw: loadDocx")
    /\ UNCHANGED <<library, loadsLeft, presentation, revoked, breaker, file, loadId,
                   numPages, i, slides, warnings, ocrErrorMsg, pageVars, docHist,
                   pageHist, otherVars>>

NextLoad ==
    \/ LoadFile \/ PdfImportAndReset \/ PdfOpen \/ GetPage \/ RenderPage
    \/ ExtractImages \/ OcrCall \/ Crop \/ Fallback \/ PageEnd \/ Assemble
    \/ DocxProgress \/ DocxDone \/ DocxFail

InitLoad ==
    /\ InitGeomVars /\ InitDedupVars /\ InitOcrVars
    /\ library = LoadLibrary /\ loadsLeft = 1
    /\ InitStoreVars /\ breaker = {} /\ InitLoadVars /\ InitHistVars /\ InitLayerVars
    /\ InitAbortVars /\ InitEditVars
SpecLoad == InitLoad /\ [][NextLoad]_vars

InitDocs ==
    /\ InitGeomVars /\ InitDedupVars /\ InitOcrVars
    /\ library = SeriesLibrary /\ loadsLeft = MaxLoads
    /\ InitStoreVars /\ breaker = {} /\ InitLoadVars /\ InitHistVars /\ InitLayerVars
    /\ InitAbortVars /\ InitEditVars
SpecDocs == InitDocs /\ [][NextLoad]_vars

(***************************************************************************)
(* SpecAbort: one load, and the user's reset() at any moment of it.        *)
(***************************************************************************)
\* lines 336-343: reset() revokes the Blob URLs of the presentation shown
\* and sets presentation and both statuses; it does not touch a running
\* load or a running translateAll.
Reset ==
    /\ aborts < MaxAborts
    /\ aborts' = aborts + 1
    /\ revoked' = revokePresentationBlobUrls(presentation)
    /\ presentation' = NoPresentation
    /\ processingStatus' = Status("idle", 0, 0, <<>>)
    /\ translationStatus' = TranslationStatus("idle", "", 0, 0)
    /\ UNCHANGED <<transVars, edits, lastOp>>
    /\ IF lpc # "idle"
       THEN abortedLoad' = loadId /\ abortedAt' = i
       ELSE UNCHANGED <<abortedLoad, abortedAt>>
    /\ UNCHANGED <<library, loadsLeft, breaker, loadVars, histVars,
                   geomVars, dedupVars, ocrVars, layerVars>>

NextAbort == NextLoad \/ Reset
InitAbort == InitLoad
SpecAbort == InitAbort /\ [][NextAbort]_vars

(***************************************************************************)
(* SpecEdit: a loaded presentation, the user's edits, reset() and one      *)
(* translateAll call, whose awaits the other operations may fall between.  *)
(***************************************************************************)
EditText(id, text) ==
    [id |-> id, text |-> text, textKo |-> "", textJa |-> "",
     x |-> 100, y |-> 100, width |-> 300, height |-> 50, fontSize |-> 30,
     isEdited |-> FALSE]
EditImage(id) ==
    [id |-> id, imageUrl |-> "blob:" \o id, x |-> 500, y |-> 500, width |-> 200, height |-> 200]
EditSlide(id, pageIndex, texts, images) ==
    [id |-> id, pageIndex |-> pageIndex, textElements |-> texts, imageElements |-> images]
\* The presentation being edited: two slides, one text element blank.
EditedDeck ==
    Presentation(1, PdfFile(2, 0),
                 << EditSlide("s1", 0, << EditText("t1", "Hello"), EditText("t2", " ") >>,
                              << EditImage("g1") >>),
                    EditSlide("s2", 1, << EditText("t3", "World") >>, <<>>) >>, "pdf")
\* The presentation of a document loaded afterwards.
OtherDeck ==
    Presentation(2, FigureFile,
                 << EditSlide("s9", 0, << EditText("t9", "Other") >>, <<>>) >>, "pdf")
SlideIds == {"s1", "s2", "s0"}
TextIds == {"t1", "t3", "t0"}
ImageIds == {"g1", "g0"}
TextUpdates == { [text |-> "Edited"], [x |-> 200, isEdited |-> FALSE] }
ImageUpdates == { [x |-> 600] }

\* As applyUpdates, the tag set before the updates are spread.
applyUpdates_tagFirst(el, updates) ==
    [f \in DOMAIN el |-> IF f \in DOMAIN updates THEN updates[f]
                         ELSE IF f = "isEdited" THEN TRUE ELSE el[f]]
\* line 145: { ...el, ...updates, isEdited: true }
applyUpdates(el, updates) ==
    [f \in DOMAIN el |-> IF f = "isEdited" THEN TRUE
                         ELSE IF f \in DOMAIN updates THEN updates[f] ELSE el[f]]
\* line 186: { ...el, ...updates }
spreadUpdates(el, updates) ==
    [f \in DOMAIN el |-> IF f \in DOMAIN updates THEN updates[f] ELSE el[f]]

\* lines 131-153
updateTextElement(p, slideId, elementId, updates) ==
    IF p = NoPresentation THEN p
    ELSE [p EXCEPT !.slides =
            [k \in 1..Len(p.slides) |->
                IF p.slides[k].id # slideId THEN p.slides[k]
                ELSE [p.slides[k] EXCEPT !.textElements =
                        [j \in 1..Len(p.slides[k].textElements) |->
                            IF p.slides[k].textElements[j].id # elementId
                            THEN p.slides[k].textElements[j]
                            ELSE applyUpdates(p.slides[k].textElements[j], updates)]]]]
\* lines 155-170
deleteTextElement(p, slideId, elementId) ==
    IF p = NoPresentation THEN p
    ELSE [p EXCEPT !.slides =
            [k \in 1..Len(p.slides) |->
                IF p.slides[k].id # slideId THEN p.slides[k]
                ELSE [p.slides[k] EXCEPT !.textElements =
                        SelectSeq(p.slides[k].textElements,
                                  LAMBDA el : el.id # elementId)]]]
\* lines 172-194
updateImageElement(p, slideId, elementId, updates) ==
    IF p = NoPresentation THEN p
    ELSE [p EXCEPT !.slides =
            [k \in 1..Len(p.slides) |->
                IF p.slides[k].id # slideId THEN p.slides[k]
                ELSE [p.slides[k] EXCEPT !.imageElements =
                        [j \in 1..Len(p.slides[k].imageElements) |->
                            IF p.slides[k].imageElements[j].id # elementId
                            THEN p.slides[k].imageElements[j]
                            ELSE spreadUpdates(p.slides[k].imageElements[j], updates)]]]]
\* lines 196-211
deleteImageElement(p, slideId, elementId) ==
    IF p = NoPresentation THEN p
    ELSE [p EXCEPT !.slides =
            [k \in 1..Len(p.slides) |->
                IF p.slides[k].id # slideId THEN p.slides[k]
                ELSE [p.slides[k] EXCEPT !.imageElements =
                        SelectSeq(p.slides[k].imageElements,
                                  LAMBDA el : el.id # elementId)]]]

\* A store operation of the user: counted and remembered; nothing else of
\* the store moves.
UserOp(op, slideId, elementId, updates) ==
    /\ edits < MaxEdits
    /\ edits' = edits + 1
    /\ lastOp' = [op |-> op, slideId |-> slideId, elementId |-> elementId,
                  updates |-> updates]
    /\ UNCHANGED <<library, loadsLeft, processingStatus, revoked, breaker, loadVars,
                   histVars, layerVars, abortVars, translationStatus, transVars,
                   geomVars, dedupVars, ocrVars>>

UpdateTextElement ==
    \E slideId \in SlideIds, elementId \in TextIds, updates \in TextUpdates :
        /\ UserOp("updateTextElement", slideId, elementId, updates)
        /\ presentation' = updateTextElement(presentation, slideId, elementId, updates)
DeleteTextElement ==
    \E slideId \in SlideIds, elementId \in TextIds :
        /\ UserOp("deleteTextElement", slideId, elementId, NoUpdates)
        /\ presentation' = deleteTextElement(presentation, slideId, elementId)
UpdateImageElement ==
    \E slideId \in SlideIds, elementId \in ImageIds, updates \in ImageUpdates :
        /\ UserOp("updateImageElement", slideId, elementId, updates)
        /\ presentation' = updateImageElement(presentation, slideId, elementId, updates)
DeleteImageElement ==
    \E slideId \in SlideIds, elementId \in ImageIds :
        /\ UserOp("deleteImageElement", slideId, elementId, NoUpdates)
        /\ presentation' = deleteImageElement(presentation, slideId, elementId)

\* loadFile of another document, from its first line to the set() of lines
\* 485-499, taken as one step here.
LoadAnother ==
    /\ presentation.id # OtherDeck.id
    /\ edits < MaxEdits
    /\ edits' = edits + 1
    /\ lastOp' = [NoOp EXCEPT !.op = "loadFile"]
    /\ revoked' = revokePresentationBlobUrls(presentation)
    /\ presentation' = OtherDeck
    /\ processingStatus' = Status("complete", 0, 0, <<>>)
    /\ UNCHANGED <<library, loadsLeft, breaker, loadVars, histVars, layerVars, abortVars,
                   translationStatus, transVars, geomVars, dedupVars, ocrVars>>

\* lines 225-234: the texts of the presentation that are not blank.
RECURSIVE TextsOfSlides(_, _)
TextsOfSlides(slds, k) ==
    IF k > Len(slds) THEN <<>>
    ELSE LET kept == SelectSeq(slds[k].textElements, LAMBDA el : ~ IsBlank(el.text))
         IN  [j \in 1..Len(kept) |->
                 [slideId |-> slds[k].id, elementId |-> kept[j].id, text |-> kept[j].text]]
             \o TextsOfSlides(slds, k + 1)
batchSize == 50
\* translate-client.ts is not in the repository snapshot: translateTexts
\* answers one string for each text, possibly an empty one, or throws.
translateTexts(text, lang, empty) == IF empty THEN "" ELSE lang \o ":" \o text

\* lines 222-245: translateAll up to its first await.
TranslateStart ==
    /\ tpc = "idle" /\ translateOutcome = ""
    /\ \E lang \in {"ko", "ja"} :
         /\ targetLang' = lang
         /\ abortsAtStart' = aborts
         /\ IF presentation = NoPresentation \/ TextsOfSlides(presentation.slides, 1) = <<>>
            THEN /\ translateOutcome' = "returned: nothing to translate"
                 /\ UNCHANGED <<tpc, allTexts, batchAt, translatedMap, translationStatus>>
            ELSE /\ allTexts' = TextsOfSlides(presentation.slides, 1)
                 /\ batchAt' = 0 /\ translatedMap' = <<>>
                 /\ translationStatus' =
                        TranslationStatus("translating", lang, 0,
                                          Len(TextsOfSlides(presentation.slides, 1)))
                 /\ tpc' = "batch"
                 /\ UNCHANGED translateOutcome
    /\ UNCHANGED <<library, loadsLeft, storeVars, breaker, loadVars, histVars, layerVars,
                   abortVars, edits, lastOp, geomVars, dedupVars, ocrVars>>

\* lines 251-270: one batch; lines 298-302: the catch block.
TranslateBatch ==
    /\ tpc = "batch"
    /\ \/ \E empty \in BOOLEAN :
            LET upTo == Min2(batchAt + batchSize, Len(allTexts)) IN
            /\ translatedMap' = translatedMap \o
                   [k \in 1..(upTo - batchAt) |->
                       [slideId |-> allTexts[batchAt + k].slideId,
                        elementId |-> allTexts[batchAt + k].elementId,
                        translated |-> translateTexts(allTexts[batchAt + k].text,
                                                      targetLang, empty)]]
            /\ translationStatus' =
                   TranslationStatus("translating", targetLang, upTo, Len(allTexts))
            /\ batchAt' = batchAt + batchSize
            /\ tpc' = IF batchAt + batchSize < Len(allTexts) THEN "batch" ELSE "apply"
            /\ UNCHANGED translateOutcome
       \/ /\ translationStatus' = TranslationStatus("idle", "", 0, 0)
          /\ translateOutcome' = "threw: translateTexts"
          /\ tpc' = "idle"
          /\ UNCHANGED <<translatedMap, batchAt>>
    /\ UNCHANGED <<library, loadsLeft, storeVars, breaker, loadVars, histVars, layerVars,
                   abortVars, targetLang, allTexts, abortsAtStart, edits, lastOp,
                   geomVars, dedupVars, ocrVars>>

\* translatedMap.get(`${slide.id}:${el.id}`), the last entry set for the key
Translated(map, slideId, elementId) ==
    LET hits == { k \in 1..Len(map) :
                    map[k].slideId = slideId /\ map[k].elementId = elementId }
    IN  IF hits = {} THEN ""
        ELSE map[CHOOSE k \in hits : \A h \in hits : h <= k].translated
\* lines 277-288
applyTranslations(p, map, lang) ==
    [p EXCEPT !.slides =
        [k \in 1..Len(p.slides) |->
            [p.slides[k] EXCEPT !.textElements =
                [j \in 1..Len(p.slides[k].textElements) |->
                    LET el == p.slides[k].textElements[j]
                        translated == Translated(map, p.slides[k].id, el.id)
                    IN  IF translated # ""
                        THEN IF lang = "ko" THEN [el EXCEPT !.textKo = translated]
                             ELSE [el EXCEPT !.textJa = translated]
                        ELSE el]]]]

\* lines 272-297: the translations are applied to the presentation the
\* store holds now, if it holds one.
TranslateApply ==
    /\ tpc = "apply"
    /\ tpc' = "idle"
    /\ IF presentation = NoPresentation
       THEN /\ translateOutcome' = "returned: no presentation"
            /\ UNCHANGED <<presentation, translationStatus>>
       ELSE /\ presentation' =
                   [applyTranslations(presentation, translatedMap, targetLang)
                        EXCEPT !.activeLanguage = targetLang]
            /\ translationStatus' = TranslationStatus("complete", "", 0, 0)
            /\ translateOutcome' = "ok"
    /\ UNCHANGED <<library, loadsLeft, processingStatus, revoked, breaker, loadVars,
                   histVars, layerVars, abortVars, targetLang, allTexts, batchAt,
                   translatedMap, abortsAtStart, edits, lastOp,
                   geomVars, dedupVars, ocrVars>>

NextEdit ==
    \/ UpdateTextElement \/ DeleteTextElement \/ UpdateImageElement \/ DeleteImageElement
    \/ TranslateStart \/ TranslateBatch \/ TranslateApply
    \/ Reset \/ LoadAnother
InitEdit ==
    /\ InitGeomVars /\ InitDedupVars /\ InitOcrVars /\ InitLayerVars
    /\ library = {} /\ loadsLeft = 0
    /\ presentation \in {EditedDeck, NoPresentation}
    /\ processingStatus =
           Status(IF presentation = NoPresentation THEN "idle" ELSE "complete", 0, 0, <<>>)
    /\ revoked = {}
    /\ breaker = {} /\ InitLoadVars /\ InitHistVars /\ InitAbortVars /\ InitEditVars
SpecEdit == InitEdit /\ [][NextEdit]_vars

(***************************************************************************)
(* SpecMerge: buildTextLayerElements on the text content of one page, and  *)
(* on the same items supplied in another order.                            *)
(***************************************************************************)
\* Runs of 3% font size: A at 10%..20% of the line at y = 10%; B after A at
\* a gap of 1%; C left of A and half a percent lower; D where A is; E on
\* another line; a larger G after A at a gap of 0.4%; H after A at a gap
\* of 1% and half a percent lower; a blank item.
RunA == TextItem("A", 30, 100, 900, 100)
RunB == TextItem("B", 30, 210, 900, 50)
RunC == TextItem("C", 30, 20, 895, 50)
RunD == TextItem("D", 30, 100, 900, 100)
RunE == TextItem("E", 30, 100, 500, 100)
RunG == TextItem("G", 60, 204, 900, 0)
RunH == TextItem("H", 30, 210, 895, 50)
BlankRun == TextItem(" ", 30, 150, 900, 10)
RunUniverse == {RunA, RunB, RunC, RunD, RunE, RunG, RunH, BlankRun}
\* A run after RunA on its line, at a gap of g tenths of a percent.
RunAfterA(str, g) == TextItem(str, 30, 200 + g, 900, 50)
GapPairs == { << RunA, RunAfterA("B", g) >> : g \in 0..MaxGap }
Orderings(s) == { [k \in 1..Len(s) |-> s[p[k]]] : p \in Permutations(1..Len(s)) }

InitMerge ==
    /\ InitGeomVars /\ InitDedupVars /\ InitOcrVars /\ InitIdlePipeline
    /\ layerContent \in GapPairs \cup SeqsUpTo(RunUniverse, MaxRuns)
    /\ layerShuffled \in Orderings(layerContent)
    /\ layerDone = FALSE
    /\ layerElements = <<>> /\ layerElementsShuffled = <<>> /\ layerSteps = <<>>

MergeTextLayer ==
    /\ ~ layerDone
    /\ layerDone' = TRUE
    /\ layerElements' = buildTextLayerElements(layerContent, Viewport)
    /\ layerElementsShuffled' = buildTextLayerElements(layerShuffled, Viewport)
    /\ layerSteps' = mergeSteps(layerContent, Viewport)
    /\ UNCHANGED <<layerContent, layerShuffled, geomVars, dedupVars, ocrVars, library,
                   loadsLeft, storeVars, breaker, loadVars, histVars, abortVars,
                   editVars>>

NextMerge == MergeTextLayer
SpecMerge == InitMerge /\ [][NextMerge]_vars

(***************************************************************************)
(* Geometry the claims are stated in, independent of the code's            *)
(* arithmetic: a box is the set of unit cells it covers.                   *)
(***************************************************************************)
Cells(b) == { <<cx, cy>> : cx \in b.x..(b.x + b.width - 1),
                           cy \in b.y..(b.y + b.height - 1) }
Area(b) == Cardinality(Cells(b))
InterArea(a, b) == Cardinality(Cells(a) \cap Cells(b))
SmallerArea(a, b) == Min2(Area(a), Area(b))
\* overlap(a, b) > 1/2, overlap = intersectionArea / min(areaA, areaB)
OverlapAboveHalf(a, b) == 2 * InterArea(a, b) > SmallerArea(a, b)
Inside(c, t) == Cells(c) \subseteq Cells(t)
InSeq(e, s) == \E k \in 1..Len(s) : s[k] = e

(***************************************************************************)
(* C7. GeometryDeduplicator drops a candidate if and only if some trusted  *)
(* box overlaps it by more than half of the smaller of the two areas; a    *)
(* candidate whose overlap with every trusted box is at most one half      *)
(* (exactly one half included) survives, and nothing else enters the       *)
(* result.                                                                 *)
(***************************************************************************)
C7_DropIffOverlapAboveHalf ==
    dedupDone =>
        /\ \A k \in 1..Len(ocrCroppedImages) :
              InSeq(ocrCroppedImages[k], deduplicated)
                  <=> ~ \E j \in 1..Len(pdfImages) :
                          OverlapAboveHalf(ocrCroppedImages[k], pdfImages[j])
        /\ \A k \in 1..Len(deduplicated) :
              InSeq(deduplicated[k], ocrCroppedImages)

\* Two trusted boxes and a candidate that the first overlaps by exactly one
\* half of the smaller area (not enough to drop it) and the second by exactly
\* 60% (which drops it).
C7_Witness ==
    /\ dedupDone /\ Len(pdfImages) = 2
    /\ \E k \in 1..Len(ocrCroppedImages) :
          LET c == ocrCroppedImages[k] IN
          /\ ~ InSeq(c, deduplicated)
          /\ 2 * InterArea(c, pdfImages[1]) = SmallerArea(c, pdfImages[1])
          /\ 5 * InterArea(c, pdfImages[2]) = 3 * SmallerArea(c, pdfImages[2])

(***************************************************************************)
(* C9. The overlap test is symmetric:                                      *)
(* hasSignificantOverlap(A, B) = hasSignificantOverlap(B, A).              *)
(***************************************************************************)
C9_OverlapSymmetric == compared => (overlapAB = overlapBA)

\* A significant overlap between boxes of different area, where more than
\* half of the smaller box but at most half of the larger one is covered.
C9_Witness ==
    /\ compared /\ overlapAB /\ overlapBA
    /\ Area(boxA) > Area(boxB)
    /\ 2 * InterArea(boxA, boxB) <= Area(boxA)

(***************************************************************************)
(* C10. A candidate box lying fully inside a trusted box is removed by     *)
(* GeometryDeduplicator, whatever the sizes and positions.                 *)
(***************************************************************************)
C10_NestedCandidateRemoved ==
    (compared /\ Inside(boxA, boxB)) => keptA = <<>>

\* A candidate nested in a trusted box of more than twice its area.
C10_Witness ==
    /\ compared /\ Inside(boxA, boxB) /\ keptA = <<>>
    /\ Area(boxB) > 2 * Area(boxA)
    /\ boxA.x > boxB.x /\ boxA.y > boxB.y

(***************************************************************************)
(* C1. One OCR request attempts the backends strictly in the order local   *)
(* (PaddleOCR), managed-cloud (Vertex AI), public-API (Gemini free), each  *)
(* at most once; the first backend that yields a result ends the request,  *)
(* no later backend is called after it, and the response carries that      *)
(* backend's engine tag, text elements and image regions.                  *)
(***************************************************************************)
CallRank(c) ==
    CASE c = "paddle/health" -> 1 [] c = "paddle/ocr" -> 2
      [] c = "vertex" -> 3 [] c = "gemini" -> 4
Called(c) == InSeq(c, calls)
Carries(result, engineTag) ==
    /\ rpc = "done"
    /\ response.status = 200 /\ response.engine = engineTag
    /\ response.textElements = result.textElements
    /\ response.imageRegions = result.imageRegions

C1_PriorityOrderFirstSuccessWins ==
    /\ \A p, q \in 1..Len(calls) : p < q => CallRank(calls[p]) < CallRank(calls[q])
    /\ Called("paddle/ocr") => Called("paddle/health")
    /\ Called("vertex") => Called("paddle/health") /\ paddleResult.kind = "null"
    /\ Called("gemini") => Called("vertex") /\ vertexResult.kind = "null"
    /\ paddleResult.kind = "result" =>
            /\ Carries(paddleResult, "paddleocr")
            /\ ~ Called("vertex") /\ ~ Called("gemini")
    /\ vertexResult.kind = "result" =>
            /\ Carries(vertexResult, "vertexai")
            /\ ~ Called("gemini")
    /\ geminiResult.kind = "result" => Carries(geminiResult, "gemini-free")
    /\ response.status = 200 =>
            \/ response.engine = "paddleocr" /\ paddleResult.kind = "result"
            \/ response.engine = "vertexai" /\ vertexResult.kind = "result"
            \/ response.engine = "gemini-free" /\ geminiResult.kind = "result"

\* The local probe times out, Vertex AI has no credentials, and the public
\* API answers valid JSON with one text element and one image region.
C1_Witness ==
    /\ rpc = "done"
    /\ calls = <<"paddle/health", "vertex", "gemini">>
    /\ paddleOutcome = "probeThrew" /\ vertexOutcome = "noCredentials"
    /\ rawBody.fence = "none" /\ rawBody.json.kind = "object"
    /\ response.status = 200 /\ response.engine = "gemini-free"
    /\ Len(response.textElements) = 1 /\ Len(response.imageRegions) = 1

(***************************************************************************)
(* The page pipeline: what a load may be observed to do.                   *)
(***************************************************************************)
IsPrefix(s, t) == Len(s) <= Len(t) /\ SubSeq(t, 1, Len(s)) = s
TextsOf(elements) == [k \in 1..Len(elements) |-> elements[k].text]
\* s is t with some entries left out, the rest in t's order.
RECURSIVE IsSubsequence(_, _)
IsSubsequence(s, t) ==
    IF s = <<>> THEN TRUE
    ELSE IF t = <<>> THEN FALSE
    ELSE IF Head(s) = Head(t) THEN IsSubsequence(Tail(s), Tail(t))
    ELSE IsSubsequence(s, Tail(t))
InPageLoop == lpc \in {"render", "extract", "ocr", "crop", "fallback", "pageEnd"}
PdfLoaded ==
    /\ lpc = "idle" /\ loadOutcome = "ok" /\ file.ext = "pdf" /\ presentation.id = loadId
OcrWarnings == { RateLimitWarning } \cup { OcrFailedWarning(m) : m \in ErrorMessages }
MergedText(page) == buildTextLayerElements(page.content, Viewport)

\* C2: once the breaker is open no request is sent for a later page of the
\* document, it stays open while the document is processed, and a load begun
\* afterwards has cleared it when it has passed its first step.  The last
\* part fails for a DOCX load, which never resets the breaker (see C4).
C2_BreakerSkipsAndNewLoadClears ==
    /\ tripPage # 0 => /\ BreakerOpen(breaker)
                       /\ \A k \in 1..Len(requests) : requests[k] <= tripPage
    /\ (BreakerOpen(breaker) /\ lpc # "import") => tripPage # 0
\* The same for the loads of PDF documents only.
C2_AmongPdfLoads ==
    /\ tripPage # 0 => /\ BreakerOpen(breaker)
                       /\ \A k \in 1..Len(requests) : requests[k] <= tripPage
    /\ (BreakerOpen(breaker) /\ lpc # "import" /\ file.ext = "pdf") => tripPage # 0

\* C4: every document load that has passed its first step, whatever the
\* type of the document, has reset the breaker exactly once, and a page at
\* its OCR stage finds it reset once.  Fails for DOCX: loadDocxFile has no
\* resetOcrCircuitBreaker call.
C4_ResetOnceAtEveryLoadStart ==
    (loadId > 0 /\ lpc # "import") => resets = 1
\* The same for the loads of PDF documents only.
C4_AmongPdfLoads ==
    (loadId > 0 /\ lpc # "import" /\ file.ext = "pdf") => resets = 1

\* C3: when /api/ocr answers the request of page k with the rate limit, no
\* request is sent after it for the pages k..n; each of these pages gives a
\* slide whose text is the merged text layer where the page has one that
\* can be read and is empty otherwise; the document carries exactly one OCR
\* warning; and the slides of the pages 1..k-1 stay as they were.
C3_RateLimitedPagesFallBack ==
    tripPage # 0 =>
        /\ requests # <<>> /\ requests[Len(requests)] = tripPage
        /\ \A k \in 1..(Len(requests) - 1) : requests[k] < tripPage
        /\ Len(slidesAtTrip) = tripPage - 1 /\ IsPrefix(slidesAtTrip, slides)
        /\ \A p \in tripPage..Len(slides) :
              /\ slides[p].pageIndex = p - 1
              /\ slides[p].textElements \in {MergedText(file.pages[p]), <<>>}
              /\ ~ file.pages[p].hasText => slides[p].textElements = <<>>
        /\ lpc = "pageEnd" =>
              textElements = IF CurrentPage.hasText /\ fallbackOutcome # "threw"
                             THEN MergedText(CurrentPage) ELSE <<>>
        /\ Cardinality({ k \in 1..Len(warnings) : warnings[k] \in OcrWarnings }) = 1
        /\ ocrErrorMsg = "rate limited" => InSeq(RateLimitWarning, warnings)
        /\ PdfLoaded => /\ Len(presentation.slides) = numPages
                        /\ IsPrefix(warnings, processingStatus.warnings)
\* A three-page document loaded to the end whose second page was answered
\* with the rate limit: page 2 has its text layer's text, page 3 has none.
C3_Witness ==
    /\ PdfLoaded /\ numPages = 3 /\ tripPage = 2 /\ requests = <<1, 2>>
    /\ TextsOf(presentation.slides[1].textElements) = << "Hello World", "edge" >>
    /\ Len(presentation.slides[2].textElements) = 2
    /\ presentation.slides[2].textElements[1].text = "Title"
    /\ presentation.slides[3].textElements = <<>>
    /\ processingStatus.warnings = << RateLimitWarning >>

\* C5: the calls and stages of a page come in the order rendering,
\* renderPageToImage, extracting-images, extractImagesFromPage,
\* ocr-processing, extractTextWithOcr, then the cropper or the text-layer
\* fallback or neither, then done.
PageOrder(middle) ==
    << "rendering-pages", "renderPageToImage", "extracting-images",
       "extractImagesFromPage", "ocr-processing", "extractTextWithOcr" >>
    \o middle \o << "done" >>
C5_PageStageOrder ==
    /\ \/ IsPrefix(pageTrace, PageOrder(<<>>))
       \/ IsPrefix(pageTrace, PageOrder(<< "cropImageRegions" >>))
       \/ IsPrefix(pageTrace, PageOrder(<< "tryExtractText" >>))
    /\ InPageLoop =>
          processingStatus.stage =
              CHOOSE st \in {"rendering-pages", "extracting-images", "ocr-processing"} :
                  \E k \in 1..Len(pageTrace) :
                      /\ pageTrace[k] = st
                      /\ \A m \in (k + 1)..Len(pageTrace) :
                            pageTrace[m] \notin {"rendering-pages", "extracting-images",
                                                 "ocr-processing"}
    /\ InSeq("tryExtractText", pageTrace) => ocrOutcome \in {"failed", "rateLimited", "skipped"}
    /\ (InSeq("done", pageTrace) /\ ocrOutcome \in {"failed", "rateLimited", "skipped"})
           => InSeq("tryExtractText", pageTrace)
\* A page that went through the text-layer fallback and is done.
C5_Witness ==
    /\ pageTrace = PageOrder(<< "tryExtractText" >>)
    /\ extractOutcome = "threw" /\ fallbackOutcome = "merged"


\* C6: while page i is processed the slides of the pages 1..i-1, and no
\* other, are there; slide k comes from page k and has pageIndex k-1; a
\* PDF loaded to the end has exactly one slide per page.
FromPage(slide, page) ==
    /\ slide.textElements \in {MapSeq(page.ocrText, toTextElement), MergedText(page), <<>>}
    /\ \/ slide.imageElements = <<>>
       \/ IsPrefix(page.native, slide.imageElements)
       \/ \A k \in 1..Len(slide.imageElements) : slide.imageElements[k].imageUrl = "blob:crop"
    /\ (page.native = <<>> /\ page.ocrRegions = <<>>) => slide.imageElements = <<>>
C6_SequentialPagesOneSlideEach ==
    /\ (InPageLoop \/ lpc = "getPage") => (Len(slides) = i - 1 /\ i <= numPages)
    /\ lpc = "assemble" => (Len(slides) = numPages /\ i = numPages + 1)
    /\ file.ext = "pdf" =>
          \A k \in 1..Len(slides) :
              slides[k].pageIndex = k - 1 /\ FromPage(slides[k], file.pages[k])
    /\ PdfLoaded =>
          /\ presentation.slides = slides
          /\ Len(presentation.slides) = Len(file.pages)
\* A three-page PDF loaded to the end.
C6_Witness ==
    /\ PdfLoaded /\ Len(file.pages) = 3
    /\ [k \in 1..3 |-> presentation.slides[k].pageIndex] = <<0, 1, 2>>
    /\ presentation.slides[1].imageElements = RichPage.native
    /\ presentation.slides[2].textElements = << OcrText("Title") >>
    /\ Len(presentation.slides[3].imageElements) = 1

\* C8: from the OCR stage of a page on, the images returned by the native
\* extraction head the page's images, unchanged and in their order; what
\* follows are crops of the OCR regions in the order of the regions; nothing
\* follows when OCR failed or the cropper threw.
C8_NativeImagesKept ==
    lpc \in {"ocr", "crop", "fallback", "pageEnd"} =>
        LET rest == SubSeq(imageElements, Len(nativeImages) + 1, Len(imageElements))
        IN  /\ nativeImages = IF extractOutcome = "ok" THEN CurrentPage.native ELSE <<>>
            /\ IsPrefix(nativeImages, imageElements)
            /\ IsSubsequence(rest, croppedImages)
            /\ \A k \in 1..Len(rest) : ~ InSeq(rest[k], nativeImages)
            /\ (ocrOutcome # "ok" \/ cropOutcome # "ok") => rest = <<>>
\* The rich page after cropping: its two embedded images, then the three
\* crops that are not nested in one of them.
C8_Witness ==
    /\ lpc = "pageEnd" /\ extractOutcome = "ok" /\ cropOutcome = "ok"
    /\ Len(croppedImages) = 4
    /\ imageElements =
          RichPage.native \o << ImageElement("blob:crop", Box(100, 600, 300, 300)),
                                ImageElement("blob:crop", Box(500, 100, 200, 300)),
                                ImageElement("blob:crop", Box(0, 950, 10, 1000)) >>

(***************************************************************************)
(* C11. A candidate box that shares no area with the trusted box, boxes    *)
(* that only touch along an edge or at a corner included, has overlap 0    *)
(* with it, is not found to overlap significantly, and survives            *)
(* deduplication.                                                          *)
(***************************************************************************)
Touching(a, b) ==
    /\ Cells(a) \cap Cells(b) = {}
    /\ a.x <= b.x + b.width /\ b.x <= a.x + a.width
    /\ a.y <= b.y + b.height /\ b.y <= a.y + a.height
C11_DisjointCandidateSurvives ==
    (compared /\ Cells(boxA) \cap Cells(boxB) = {}) =>
        /\ InterArea(boxA, boxB) = 0
        /\ ~ overlapAB /\ ~ overlapBA
        /\ keptA = <<boxA>>
\* Two boxes that meet in one corner point only.
C11_Witness ==
    /\ compared /\ Touching(boxA, boxB)
    /\ boxA.x + boxA.width = boxB.x /\ boxA.y + boxA.height = boxB.y
    /\ keptA = <<boxA>>

(***************************************************************************)
(* The text-layer merger.                                                  *)
(***************************************************************************)
\* Two runs with text on one line, of one font size, the second starting at
\* or after the right edge of the first (in either order of supply).
LeftRun(items) == IF items[1].tx <= items[2].tx THEN items[1] ELSE items[2]
RightRun(items) == IF items[1].tx <= items[2].tx THEN items[2] ELSE items[1]
GapOf(items) == RightRun(items).tx - (LeftRun(items).tx + LeftRun(items).width)
IsGapPair(items) ==
    /\ Len(items) = 2
    /\ items[1].str # " " /\ items[2].str # " "
    /\ items[1].ty = items[2].ty /\ items[1].a = items[2].a
    /\ LeftRun(items).width > 0 /\ GapOf(items) >= 0
GapRule(items, elements) ==
    IF GapOf(items) < 30
    THEN TextsOf(elements) =
            << LeftRun(items).str \o (IF GapOf(items) > 5 THEN " " ELSE "")
                                  \o RightRun(items).str >>
    ELSE TextsOf(elements) = << LeftRun(items).str, RightRun(items).str >>

\* C12: two runs on one line with matching heights, the second at gap g
\* after the first, become one block iff g < 3 percent, the block's text
\* having one space between the two texts iff g > 0.5 percent; otherwise
\* they stay two blocks, left one first.
C12_GapDecidesMergeAndSpace ==
    layerDone =>
        /\ IsGapPair(layerContent) => GapRule(layerContent, layerElements)
        /\ IsGapPair(layerShuffled) => GapRule(layerShuffled, layerElementsShuffled)
\* Runs 1 percent apart, supplied right one first: one block "A B".
C12_Witness ==
    /\ layerDone /\ IsGapPair(layerContent) /\ GapOf(layerContent) = 10
    /\ layerContent[1].tx > layerContent[2].tx
    /\ TextsOf(layerElements) = << "A B" >>
    /\ layerElements[1].x = 100 /\ layerElements[1].width = 160

\* The texts that some of the runs with text give when they are joined in
\* ascending horizontal position, with or without a space at each joint.
WithText(items) == SelectSeq(items, LAMBDA item : item.str # " ")
Picks(n) ==
    { q \in UNION { [1..k -> 1..n] : k \in 1..n } :
          \A k, m \in 1..Len(q) : k # m => q[k] # q[m] }
RECURSIVE Joined(_, _, _)
Joined(items, q, sp) ==
    IF Len(q) = 1 THEN items[q[1]].str
    ELSE Joined(items, SubSeq(q, 1, Len(q) - 1), sp) \o sp[Len(q)] \o items[q[Len(q)]].str
AscendingTexts(items) ==
    { Joined(items, q, sp) :
          q \in { r \in Picks(Len(items)) :
                     \A k \in 1..(Len(r) - 1) : items[r[k]].tx <= items[r[k + 1]].tx },
          sp \in [1..Len(items) -> {"", " "}] }

\* C13: the text of every block is the texts of its runs in ascending
\* horizontal position.  Fails for runs whose vertical positions differ
\* within the tolerance: the sort is by vertical position first, so a run
\* to the right that lies slightly higher is put before the run to its left.
C13_BlockTextAscending ==
    layerDone =>
        \A k \in 1..Len(layerElements) :
            layerElements[k].text \in AscendingTexts(WithText(layerContent))
\* The same for runs that are all on one vertical position.
C13_AmongRunsOfOneLine ==
    (layerDone /\ \A k, m \in 1..Len(layerContent) : layerContent[k].ty = layerContent[m].ty) =>
        \A k \in 1..Len(layerElements) :
            layerElements[k].text \in AscendingTexts(WithText(layerContent))

\* C14: the blocks depend on the set of runs only: the same runs supplied in
\* another order give the same sequence of blocks.  Fails for two runs at
\* one position: the sort leaves them in the order of supply.
C14_OrderOfSupplyIrrelevant ==
    layerDone => layerElements = layerElementsShuffled
\* The same for runs no two of which share a position.
C14_AmongRunsOfDistinctPositions ==
    (layerDone /\ \A k, m \in 1..Len(layerContent) :
                     (k # m /\ layerContent[k].str # " " /\ layerContent[m].str # " ")
                         => <<layerContent[k].tx, layerContent[k].ty>>
                                # <<layerContent[m].tx, layerContent[m].ty>>)
        => layerElements = layerElementsShuffled

\* C15: in every finished slide each text element (from the OCR answer or
\* from the text layer) and each image cropped from an OCR region has x and
\* y within [0,100] and width and height within (0,100] percent.
InPage(e) ==
    /\ 0 <= e.x /\ e.x <= 1000 /\ 0 <= e.y /\ e.y <= 1000
    /\ 0 < e.width /\ e.width <= 1000 /\ 0 < e.height /\ e.height <= 1000
ReachedPublicApi == paddleResult.kind = "null" /\ vertexResult.kind = "null"
RequestFailed == rpc = "done" /\ response.status # 200

\* C16: whatever the local and the managed-cloud backend do (probe fails
\* or times out, OCR call not ok, OCR call times out or errors; no
\* credentials, quota error, empty or malformed output) the request goes on
\* to the next backend: a request that called a backend fails only at the
\* public-API backend.  Fails when the OCR call of the local backend throws:
\* that fetch stands outside the try of tryPaddleOcr.
C16_FailsOnlyAtPublicApi ==
    (RequestFailed /\ calls # <<>>) => ReachedPublicApi
\* The same, the throw of the local OCR call left aside.
C16_ExceptLocalOcrThrow ==
    (RequestFailed /\ calls # <<>> /\ paddleOutcome # "ocrThrew") => ReachedPublicApi

\* C17: without a public-API key the request fails for the missing key
\* exactly when the local and the managed-cloud backend gave no result; the
\* public API is then not called and the caller gets an error; when an
\* earlier backend gave a result the response carries it.
C17_MissingKeyFatalOnlyWhenReached ==
    (~ apiKey /\ rpc = "done") =>
        /\ ~ Called("gemini")
        /\ geminiResult.kind = "pending"
        /\ ReachedPublicApi =>
              /\ response.status = 500 /\ response.error = "invalid Gemini API key"
              /\ response.textElements = <<>> /\ response.imageRegions = <<>>
              /\ calls[Len(calls)] = "vertex"
        /\ response.error = "invalid Gemini API key" => ReachedPublicApi
        /\ paddleResult.kind = "result" => Carries(paddleResult, "paddleocr")
        /\ vertexResult.kind = "result" => Carries(vertexResult, "vertexai")
\* No key, the local OCR call not ok, the managed-cloud answer unparseable:
\* the request fails for the key.
C17_Witness ==
    /\ ~ apiKey /\ rpc = "done"
    /\ calls = << "paddle/health", "paddle/ocr", "vertex" >>
    /\ paddleOutcome = "ocrNotOk" /\ vertexOutcome = "unparseable"
    /\ response.status = 500 /\ response.error = "invalid Gemini API key"

\* The response text is no JSON of one of the two shapes.
Unparseable(responseText) ==
    \/ responseText.fence \in {"other", "trailing"}
    \/ responseText.json.kind \in {"malformed", "other", "badObject"}
    \/ responseText.json.kind = "object" /\ ~ responseText.json.textElements.present

\* C18: when the call of the public API returned, POST answers with a
\* result tagged gemini-free; for a text that cannot be parsed or has an
\* unknown shape the result has no text elements and no image regions.
C18_PublicApiAlwaysGivesResult ==
    (rpc = "done" /\ geminiResult.kind # "pending") =>
        /\ geminiResult.kind = "result"
        /\ Carries(geminiResult, "gemini-free")
        /\ Unparseable(rawBody) =>
              /\ response.textElements = <<>> /\ response.imageRegions = <<>>
\* The public API answered with an object that has image regions but no
\* textElements field.
C18_Witness ==
    /\ rpc = "done" /\ Called("gemini") /\ geminiResult.kind = "result"
    /\ rawBody.fence = "none" /\ rawBody.json.kind = "object"
    /\ ~ rawBody.json.textElements.present
    /\ response = JsonResponse(OcrResult(<<>>, <<>>), "gemini-free")

\* The text of an element as sent, composed and never missing.
Canonical(t) == CASE t = "undefined" -> "" [] t = "cafe-nfd" -> "cafe-nfc" [] OTHER -> t
SameElements(sent, got) ==
    /\ Len(got) = Len(sent)
    /\ \A k \in 1..Len(sent) :
          /\ got[k].text = Canonical(sent[k].text)
          /\ <<got[k].x, got[k].y, got[k].width, got[k].height, got[k].fontSize>>
                 = <<sent[k].x, sent[k].y, sent[k].width, sent[k].height, sent[k].fontSize>>

\* C19: a response that is an object with textElements gives these
\* elements, as many and in their order, with the object's imageRegions
\* (none if absent); a bare array gives its entries as text elements, as
\* many and in their order, and no image regions.
C19_TwoShapesAccepted ==
    (rpc = "done" /\ geminiResult.kind # "pending"
        /\ rawBody.fence \in {"none", "json", "plain"}) =>
        /\ (rawBody.json.kind = "object" /\ rawBody.json.textElements.present) =>
              /\ SameElements(rawBody.json.textElements.val, response.textElements)
              /\ response.imageRegions = IF rawBody.json.imageRegions.present
                                         THEN rawBody.json.imageRegions.val ELSE <<>>
        /\ rawBody.json.kind = "array" =>
              /\ SameElements(rawBody.json.items, response.textElements)
              /\ response.imageRegions = <<>>
\* A fenced bare array of two elements, the first without text.
C19_Witness ==
    /\ rpc = "done" /\ response.status = 200 /\ response.engine = "gemini-free"
    /\ rawBody.fence = "json" /\ rawBody.json.kind = "array"
    /\ TextsOf(rawBody.json.items) = << "undefined", "cafe-nfd" >>
    /\ TextsOf(response.textElements) = << "", "cafe-nfc" >>
    /\ response.imageRegions = <<>>

\* C20: a throw of extractImagesFromPage does not abort the page: the page
\* goes on to its OCR stage without embedded images, and its slide is made.
C20_ExtractionFailureContained ==
    extractOutcome = "threw" =>
        /\ nativeImages = <<>>
        /\ loadOutcome # "threw: extractImagesFromPage"
        /\ IF lpc \in {"ocr", "crop", "fallback", "pageEnd"}
           THEN /\ loadOutcome = "running"
                /\ InSeq("ocr-processing", pageTrace)
                /\ \A k \in 1..Len(imageElements) : imageElements[k].imageUrl = "blob:crop"
           ELSE /\ InSeq("done", pageTrace)
                /\ Len(slides) = i - 1 /\ i >= 2
                /\ \A k \in 1..Len(slides[i - 1].imageElements) :
                      slides[i - 1].imageElements[k].imageUrl = "blob:crop"
\* The extraction threw on the rich page; OCR and the cropper went well and
\* the slide has the four crops and no embedded image.
C20_Witness ==
    /\ extractOutcome = "threw" /\ InSeq("done", pageTrace) /\ ocrOutcome = "ok"
    /\ Len(slides) = 1 /\ Len(slides[1].imageElements) = 4
    /\ Len(slides[1].textElements) = 2

(***************************************************************************)
(* The store: failures of a page and of the whole load.                    *)
(***************************************************************************)
LoadEnded == lpc = "idle" /\ loadOutcome \notin {"", "running"}
Completed ==
    /\ loadOutcome = "ok" /\ processingStatus.stage = "complete"
    /\ presentation.id = loadId /\ Len(presentation.slides) = numPages
PageFailures == {"threw: getPage", "threw: renderPageToImage"}
FatalFailures == {"threw: loadPdf", "threw: loadDocx", "threw: unsupported file type"}

\* C21: a failure at a single page (getPage, renderPageToImage, the image
\* extraction, OCR, the cropper, the text layer) never aborts the load: a
\* PDF that was opened ends in stage complete with one slide per page.
\* Fails for getPage and renderPageToImage, which stand outside the page's
\* try blocks.
C21_PageFailureNeverAborts ==
    (LoadEnded /\ file.ext = "pdf" /\ numPages > 0) => Completed
\* The same for the failures inside the page's try blocks.
C21_AmongStagesInTry ==
    (LoadEnded /\ file.ext = "pdf" /\ numPages > 0 /\ loadOutcome \notin PageFailures)
        => Completed

\* C22: when the document cannot be loaded at all (loadPdf or loadDocx
\* throws, or the file type is unsupported) loadFile throws, the stage is
\* idle afterwards, and the presentation is not one of the failed load.
\* Fails for an unsupported type after a completed load: loadFile throws
\* with the stage left at complete.
C22_FatalLoadEndsIdle ==
    [][ (lpc' = "idle" /\ loadOutcome' \in FatalFailures) =>
            /\ processingStatus'.stage = "idle"
            /\ presentation' = presentation ]_vars
\* The same with the stage of an unsupported type left as it was.
C22_StageIdleOrUntouched ==
    [][ (lpc' = "idle" /\ loadOutcome' \in FatalFailures) =>
            /\ presentation' = presentation
            /\ IF loadOutcome' = "threw: unsupported file type"
               THEN processingStatus' = processingStatus
               ELSE processingStatus'.stage = "idle" ]_vars

(***************************************************************************)
(* The store: the page whose OCR failed, and the warnings.                 *)
(***************************************************************************)
OcrFailed == ocrOutcome \in {"skipped", "rateLimited", "failed"}
PageDone == InSeq("done", pageTrace)
\* The page the page history is about: the one just finished, or the one
\* being processed.
PageAtHand == file.pages[IF PageDone THEN i - 1 ELSE i]
CountIn(e, s) == Cardinality({ k \in 1..Len(s) : s[k] = e })

\* C23: a page whose OCR failed has, when its slide is made, the text
\* elements of the text-layer fallback if tryExtractText reported a text
\* layer, and otherwise no text element, with an OCR warning among the
\* warnings of the document.
C23_FailedOcrTextLayerOrWarning ==
    (OcrFailed /\ PageDone) =>
        /\ fallbackOutcome \in {"merged", "noText", "threw"}
        /\ (PageAtHand.hasText /\ fallbackOutcome # "threw") => fallbackOutcome = "merged"
        /\ fallbackOutcome = "merged" =>
              /\ PageAtHand.hasText
              /\ slides[i - 1].textElements = MergedText(PageAtHand)
        /\ fallbackOutcome # "merged" =>
              /\ slides[i - 1].textElements = <<>>
              /\ \E k \in 1..Len(warnings) : warnings[k] \in OcrWarnings
\* OCR failed on both pages: the scanned page 1 has no text and the warning
\* is recorded, the text page 2 has the text of its text layer.
C23_Witness ==
    /\ OcrFailed /\ PageDone /\ Len(slides) = 2 /\ numPages = 2
    /\ ~ file.pages[1].hasText /\ slides[1].textElements = <<>>
    /\ fallbackOutcome = "merged" /\ Len(slides[2].textElements) = 2
    /\ slides[2].textElements[1].text = "Title"
    /\ warnings[1] = OcrFailedWarning("fetch failed")

TotalFailureWarning == FirstPageWarnings[1]
EmptySlide(slide) == Len(slide.textElements) = 0 /\ Len(slide.imageElements) = 0

\* C24: the warning of a total extraction failure is among the warnings
\* iff the slide of page 1 has no text element and no image element; no
\* later page adds it, so it is there at most once.
C24_TotalFailureWarningFirstPageOnly ==
    /\ slides = <<>> => CountIn(TotalFailureWarning, warnings) = 0
    /\ slides # <<>> =>
          CountIn(TotalFailureWarning, warnings) = IF EmptySlide(slides[1]) THEN 1 ELSE 0
    /\ PdfLoaded =>
          CountIn(TotalFailureWarning, processingStatus.warnings)
              = IF EmptySlide(presentation.slides[1]) THEN 1 ELSE 0
\* Pages 1 and 2 both end empty; the warning is there once.
C24_Witness ==
    /\ PdfLoaded /\ numPages = 2
    /\ EmptySlide(presentation.slides[1]) /\ EmptySlide(presentation.slides[2])
    /\ CountIn(TotalFailureWarning, processingStatus.warnings) = 1

\* C25: in a document during which the rate limit was signalled the
\* rate-limit warning is among the document's warnings exactly once.  Fails
\* when an OCR failure of another kind came first: only the first OCR error
\* of a document is recorded.
C25_RateLimitSurfacedOnce ==
    tripPage # 0 => CountIn(RateLimitWarning, warnings) = 1
\* The same when the rate limit is the first OCR failure of the document;
\* and never more than once.
C25_WhenFirstOcrFailure ==
    /\ CountIn(RateLimitWarning, warnings) <= 1
    /\ (tripPage # 0 /\ ocrErrorMsg = "rate limited") =>
          CountIn(RateLimitWarning, warnings) = 1

PageCalls == {"renderPageToImage", "extractImagesFromPage", "extractTextWithOcr",
              "cropImageRegions", "tryExtractText", "done"}
NoRetryInPage ==
    /\ \A c \in PageCalls : CountIn(c, pageTrace) <= 1
    /\ \A p \in 1..MaxPages : CountIn(p, requests) <= 1
    /\ (file.ext = "pdf" /\ lpc \notin {"import", "open"} /\ loadOutcome \in {"running", "ok"})
          => Len(slides) = i - 1

\* C26: no stage of a page is done twice (the image extraction, the OCR
\* call and the text-layer fallback at most once, one request per page at
\* most), and every page of an opened document ends in done with one slide.
\* The last part fails with C21: a throw of getPage or renderPageToImage
\* ends the load and the page has no slide.
C26_NoRetryOneResultPerPage ==
    /\ NoRetryInPage
    /\ (LoadEnded /\ file.ext = "pdf" /\ numPages > 0) =>
          /\ Len(slides) = numPages
          /\ \A k \in 1..Len(slides) : slides[k].pageIndex = k - 1
\* The same for the loads that getPage and renderPageToImage do not end.
C26_AmongLoadsNotAborted ==
    /\ NoRetryInPage
    /\ (LoadEnded /\ file.ext = "pdf" /\ numPages > 0 /\ loadOutcome \notin PageFailures) =>
          /\ Len(slides) = numPages
          /\ \A k \in 1..Len(slides) : slides[k].pageIndex = k - 1
\* Within one request to /api/ocr no backend is called twice.
C26_EachBackendOnce ==
    \A c \in {"paddle/health", "paddle/ocr", "vertex", "gemini"} : CountIn(c, calls) <= 1

\* C27: tryExtractText is called for a page only when its OCR call failed,
\* and the text layer is merged only if the page has one; when the OCR call
\* succeeded the page's text elements are the ones it returned, also when
\* there are none, and the fallback is not run.
C27_FallbackOnlyAfterFailedOcr ==
    /\ InSeq("tryExtractText", pageTrace) => OcrFailed
    /\ fallbackOutcome # "" => InSeq("tryExtractText", pageTrace)
    /\ fallbackOutcome = "merged" => (OcrFailed /\ PageAtHand.hasText)
    /\ ocrOutcome = "ok" =>
          /\ fallbackOutcome = "" /\ ~ InSeq("tryExtractText", pageTrace)
          /\ textElements = MapSeq(PageAtHand.ocrText, toTextElement)
          /\ PageDone => slides[i - 1].textElements = textElements
\* OCR succeeded on a text page after it returned no text for the scanned
\* page 1: slide 1 has no text, the fallback was never run.
C27_Witness ==
    /\ ocrOutcome = "ok" /\ PageDone /\ Len(slides) = 2
    /\ slides[1].textElements = <<>> /\ Len(slides[1].imageElements) = 1
    /\ file.pages[2].hasText /\ TextsOf(slides[2].textElements) = << "Title" >>
    /\ warnings = <<>> /\ requests = << 1, 2 >>

(***************************************************************************)
(* The route handler: termination.                                         *)
(***************************************************************************)
\* C28: every request to /api/ocr gets a response, also when a backend
\* never answers.  Fails at the managed-cloud and the public-API call:
\* generateContent is awaited without a time bound.
C28_EveryRequestReturns == <>(rpc = "done")
\* The calls of the local backend, which carry a timeout, always end, and so
\* does the public-API backend when the key is missing.
C28_BoundedCallsEnd ==
    /\ <>(rpc \in {"vertex", "gemini", "done"})
    /\ (rpc = "gemini" /\ ~ apiKey) ~> (rpc = "done")

(***************************************************************************)
(* The store: reset() during a load.                                       *)
(***************************************************************************)
\* C29: after reset() was called while a load ran, no further page of that
\* load is begun, and the store gets neither a stage nor the presentation
\* of that load.  Fails: loadPdfFile never looks whether it was aborted.
C29_AbortStopsLoad ==
    (abortedLoad # 0 /\ abortedLoad = loadId) =>
        /\ InPageLoop => i = abortedAt
        /\ processingStatus.stage = "idle"
        /\ presentation.id # abortedLoad
\* reset() itself empties the store.
C29_ResetEmptiesStore ==
    [][ aborts' # aborts =>
            /\ presentation' = NoPresentation
            /\ processingStatus'.stage = "idle" ]_vars

(***************************************************************************)
(* The text-layer merger: the box of the open block.                       *)
(***************************************************************************)
Right(b) == b.x + b.width
Bottom(b) == b.y + b.height
Covers(blk, b) ==
    /\ blk.x <= b.x /\ blk.y <= b.y
    /\ Right(blk) >= Right(b) /\ Bottom(blk) >= Bottom(b)

\* C30: after every merge step the box of the open block covers the box it
\* had before and the run merged into it, and its font size is the larger
\* of the two font sizes.  Fails: x and y of the block are never changed
\* and its height is the larger height, not the extent down to the lower
\* bottom.
C30_BlockCoversMergedRuns ==
    \A k \in 1..Len(layerSteps) :
        /\ Covers(layerSteps[k].after, layerSteps[k].before)
        /\ Covers(layerSteps[k].after, layerSteps[k].run)
        /\ layerSteps[k].after.fontSize
              = Max2(layerSteps[k].before.fontSize, layerSteps[k].run.fontSize)
\* What holds of the block after a step: it covers the box it had, it starts
\* no lower than the run and ends no further left than the run, and its font
\* size is the larger one.
C30_PreviousBoxTopRightAndFont ==
    \A k \in 1..Len(layerSteps) :
        /\ Covers(layerSteps[k].after, layerSteps[k].before)
        /\ layerSteps[k].after.y <= layerSteps[k].run.y
        /\ Right(layerSteps[k].after) >= Right(layerSteps[k].run)
        /\ layerSteps[k].after.fontSize
              = Max2(layerSteps[k].before.fontSize, layerSteps[k].run.fontSize)
\* Left of A and lower: the block A+C starts right of C.  Right of A and
\* lower: the block A+H ends above the bottom of H.
C30_StartsRightOfRun ==
    \E k \in 1..Len(layerSteps) : layerSteps[k].after.x > layerSteps[k].run.x
C30_EndsAboveRun ==
    \E k \in 1..Len(layerSteps) :
        /\ layerSteps[k].after.x <= layerSteps[k].run.x
        /\ Bottom(layerSteps[k].after) < Bottom(layerSteps[k].run)

(***************************************************************************)
(* The store: the processing stage.                                        *)
(***************************************************************************)
LoadingStages == {"loading-pdf", "loading-docx"}
CountedStages == {"rendering-pages", "extracting-images", "ocr-processing"}
\* The stage b may come next after the stage a; a load that fails goes to
\* idle, and a DOCX has no stages of its own between rendering and complete.
StageFollows(a, b) ==
    \/ a \in {"idle", "complete"} /\ b \in LoadingStages
    \/ a \in LoadingStages /\ b = "rendering-pages"
    \/ a = "rendering-pages" /\ b \in {"rendering-pages", "extracting-images"}
    \/ a = "extracting-images" /\ b = "ocr-processing"
    \/ a = "ocr-processing" /\ b \in {"rendering-pages", "complete"}
    \/ a \in LoadingStages \cup {"rendering-pages"} /\ b = "complete" /\ file.ext = "docx"
    \/ b = "idle" /\ loadOutcome' \notin {"running", "ok"}

\* C31: whenever the processing status changes, the new stage is one that
\* follows the old one in idle, loading, rendering-pages, extracting-images,
\* ocr-processing (these three for each page), complete; a PDF reaches
\* complete from the ocr-processing stage of its last page; the counters
\* keep 0 <= current <= total, total stays and current does not decrease
\* within a load; and while a load runs only the load changes the status.
\* Fails with C29: reset() sets the stage to idle under a running load, which
\* then goes on from idle to the stage of its next step.
C31_StageProgress ==
    [][ processingStatus' # processingStatus =>
          /\ StageFollows(processingStatus.stage, processingStatus'.stage)
          /\ (processingStatus'.stage = "complete" /\ file.ext = "pdf") =>
                /\ processingStatus.stage = "ocr-processing"
                /\ processingStatus.current = processingStatus.total
          /\ processingStatus'.stage \in CountedStages =>
                /\ 0 <= processingStatus'.current
                /\ processingStatus'.current <= processingStatus'.total
          /\ (processingStatus.stage \in CountedStages
                /\ processingStatus'.stage \in CountedStages) =>
                /\ processingStatus'.total = processingStatus.total
                /\ processingStatus'.current >= processingStatus.current
          /\ lpc # "idle" => aborts' = aborts ]_vars

(***************************************************************************)
(* The store: the images of a slide.                                       *)
(***************************************************************************)
OverlapLen(lo1, len1, lo2, len2) ==
    Max2(0, Min2(lo1 + len1, lo2 + len2) - Max2(lo1, lo2))
\* More than half of the smaller of the two boxes is common to both.
SignificantlyOverlap(a, b) ==
    2 * OverlapLen(a.x, a.width, b.x, b.width) * OverlapLen(a.y, a.height, b.y, b.height)
        > Min2(a.width * a.height, b.width * b.height)
IsCrop(img) == img.imageUrl = "blob:crop"

\* C32: no two image elements of a slide overlap significantly, be they
\* embedded images, crops, or one of each.  Fails for two crops: the crops
\* are compared with the embedded images only, never with each other.
C32_SlideImagesDoNotOverlap ==
    \A k \in 1..Len(slides) :
        \A p, q \in 1..Len(slides[k].imageElements) :
            p < q => ~ SignificantlyOverlap(slides[k].imageElements[p],
                                            slides[k].imageElements[q])
\* The same for an embedded image and a crop.
C32_CropsClearOfEmbeddedImages ==
    \A k \in 1..Len(slides) :
        \A p, q \in 1..Len(slides[k].imageElements) :
            (~ IsCrop(slides[k].imageElements[p]) /\ IsCrop(slides[k].imageElements[q]))
                => ~ SignificantlyOverlap(slides[k].imageElements[p],
                                          slides[k].imageElements[q])

(***************************************************************************)
(* The store: the user's edits and translateAll.                           *)
(***************************************************************************)
SameButSlides(p, q) == [q EXCEPT !.slides = p.slides] = p
SameSlideFrame(p, q) ==
    /\ Len(q.slides) = Len(p.slides)
    /\ \A k \in 1..Len(p.slides) :
         /\ q.slides[k].id = p.slides[k].id
         /\ q.slides[k].pageIndex = p.slides[k].pageIndex
         /\ q.slides[k].imageElements = p.slides[k].imageElements
         /\ Len(q.slides[k].textElements) = Len(p.slides[k].textElements)
\* el is what was became by the updates and the edit tag, and nothing else
UpdatedFrom(el, was, updates) ==
    /\ DOMAIN el = DOMAIN was
    /\ el.isEdited = TRUE
    /\ \A f \in DOMAIN was \ {"isEdited"} :
         el[f] = IF f \in DOMAIN updates THEN updates[f] ELSE was[f]
TextElementsOf(p) ==
    UNION { { p.slides[k].textElements[j] : j \in 1..Len(p.slides[k].textElements) } :
            k \in 1..Len(p.slides) }
UpdateTextElementStep == edits' # edits /\ lastOp'.op = "updateTextElement"
DeleteTextElementStep == edits' # edits /\ lastOp'.op = "deleteTextElement"
Matches(p, slideId, elementId) ==
    \E k \in 1..Len(p.slides) :
        /\ p.slides[k].id = slideId
        /\ \E j \in 1..Len(p.slides[k].textElements) :
               p.slides[k].textElements[j].id = elementId

\* C33: updateTextElement(slideId, elementId, updates) changes only the text
\* element of that id on that slide, by the updates, and tags it as edited
\* whatever the updates say; the other text elements, the image elements,
\* the slides and their order, the other fields of the presentation and
\* both status records stay as they are; without a presentation or without
\* a matching element nothing changes.  No step of the store merges text
\* elements: while the presentation stays, the text elements of each slide
\* stay in number and place, but for deleteTextElement, which leaves the
\* remaining ones as they were.
C33_UpdateTextElementFrame ==
    [][ /\ UpdateTextElementStep =>
            /\ processingStatus' = processingStatus
            /\ translationStatus' = translationStatus
            /\ SameButSlides(presentation, presentation')
            /\ SameSlideFrame(presentation, presentation')
            /\ \A k \in 1..Len(presentation.slides) :
                 \A j \in 1..Len(presentation.slides[k].textElements) :
                    LET was == presentation.slides[k].textElements[j]
                        el == presentation'.slides[k].textElements[j]
                    IN  IF /\ presentation.slides[k].id = lastOp'.slideId
                           /\ was.id = lastOp'.elementId
                        THEN UpdatedFrom(el, was, lastOp'.updates)
                        ELSE el = was
            /\ (~ Matches(presentation, lastOp'.slideId, lastOp'.elementId))
                  => presentation' = presentation
        /\ (presentation.id # 0 /\ presentation'.id = presentation.id) =>
            /\ Len(presentation'.slides) = Len(presentation.slides)
            /\ \A k \in 1..Len(presentation.slides) :
                 IF DeleteTextElementStep
                 THEN /\ Len(presentation'.slides[k].textElements)
                            <= Len(presentation.slides[k].textElements)
                      /\ TextElementsOf(presentation') \subseteq TextElementsOf(presentation)
                 ELSE /\ Len(presentation'.slides[k].textElements)
                            = Len(presentation.slides[k].textElements)
                      /\ \A j \in 1..Len(presentation.slides[k].textElements) :
                           /\ presentation'.slides[k].textElements[j].id
                                 = presentation.slides[k].textElements[j].id
                           /\ UpdateTextElementStep
                              \/ presentation'.slides[k].textElements[j].text
                                    = presentation.slides[k].textElements[j].text
      ]_vars
\* updateTextElement("s1", "t1", {x: 200, isEdited: false}) has acted on the
\* presentation: t1 moved and is tagged, t2 beside it is as it was.
C33_UpdatedAndTagged ==
    /\ lastOp.op = "updateTextElement"
    /\ lastOp.slideId = "s1" /\ lastOp.elementId = "t1"
    /\ lastOp.updates = [x |-> 200, isEdited |-> FALSE]
    /\ presentation.id = EditedDeck.id
    /\ Len(presentation.slides[1].textElements) = 2
    /\ presentation.slides[1].textElements[1] =
          [EditText("t1", "Hello") EXCEPT !.x = 200, !.isEdited = TRUE]
    /\ presentation.slides[1].textElements[2] = EditText("t2", " ")

TranslateApplyStep == tpc = "apply" /\ tpc' = "idle"
TranslateFailStep == tpc = "batch" /\ tpc' = "idle"
\* el is was, but for the field of the target language
TranslatedFrom(el, was, lang) ==
    IF lang = "ko" THEN [el EXCEPT !.textKo = was.textKo] = was
    ELSE [el EXCEPT !.textJa = was.textJa] = was
ElementsKept(p, q, lang) ==
    /\ SameSlideFrame(p, q)
    /\ \A k \in 1..Len(p.slides) :
         \A j \in 1..Len(p.slides[k].textElements) :
            TranslatedFrom(q.slides[k].textElements[j], p.slides[k].textElements[j], lang)
\* C34: when translateAll applies its translations, the presentation of the
\* store keeps its slides and elements as they are at that moment (what was
\* deleted stays deleted, what was edited stays edited), with only the
\* field of the target language set; after a reset() since the call began
\* the presentation is not written; when translateTexts throws, the
\* presentation is unchanged, the translation status is idle and the error
\* leaves translateAll.  Fails after reset() followed by a load: line 276
\* tests only that the store holds a presentation, and lines 291-298 set
\* activeLanguage of the new one.
C34_EditsSurviveTranslation ==
    [][ /\ TranslateApplyStep =>
            /\ aborts # abortsAtStart => presentation' = presentation
            /\ ElementsKept(presentation, presentation', targetLang)
        /\ TranslateFailStep =>
            /\ presentation' = presentation
            /\ translationStatus'.stage = "idle"
            /\ translateOutcome' = "threw: translateTexts"
      ]_vars
\* The same where no load has put a presentation into the store after the
\* reset().
C34_UnlessLoadedAfterReset ==
    [][ /\ TranslateApplyStep =>
            /\ (aborts # abortsAtStart /\ presentation = NoPresentation)
                  => /\ presentation' = presentation
                     /\ translateOutcome' = "returned: no presentation"
            /\ ElementsKept(presentation, presentation', targetLang)
        /\ TranslateFailStep =>
            /\ presentation' = presentation
            /\ translationStatus'.stage = "idle"
            /\ translateOutcome' = "threw: translateTexts"
      ]_vars
\* Translations were applied after t1 was edited and t3 deleted while
\* translateAll was waiting.
C34_AppliedAfterEdits ==
    /\ translateOutcome = "ok" /\ targetLang = "ko"
    /\ presentation.id = EditedDeck.id
    /\ Len(presentation.slides[1].textElements) = 2
    /\ Len(presentation.slides[2].textElements) = 0
    /\ presentation.slides[1].textElements[1].text = "Edited"
    /\ presentation.slides[1].textElements[1].isEdited
    /\ presentation.slides[1].textElements[1].textKo = "ko:Hello"

(***************************************************************************)
(* The store: revoked Blob URLs.                                           *)
(***************************************************************************)
\* C35: when no loadFile or reset call is under way the presentation of the
\* store is not one whose Blob URLs were revoked.  Fails when a load fails
\* or the file type is unsupported: loadFile has revoked the URLs of the
\* presentation shown and leaves it in the store.
C35_PresentationNotRevoked ==
    lpc = "idle" => presentation.id \notin revoked
\* The same after a load that completed, and after reset().
C35_AfterCompletedLoadOrReset ==
    /\ (lpc = "idle" /\ loadOutcome = "ok") => presentation.id \notin revoked
    /\ [][ aborts' # aborts => presentation'.id \notin revoked' ]_vars

=============================================================================
